---- MODULE Spec2Model ----
(***************************************************************************)
(* Model of @infra-blocks/github: the GitHub Actions input validators,    *)
(* getInputs and runActionHandler of src/src/github-action.ts, in the two  *)
(* revisions the repository holds (src/src/github-action.ts, release      *)
(* 0.10.0, and src/unnamed/part_002, release 0.11.0).                      *)
(*                                                                         *)
(* JavaScript values are tagged records.  Strings that the code takes      *)
(* apart (raw inputs, input names, environment keys) are sequences of      *)
(* one-character strings; messages and rendered texts are sequences of     *)
(* tokens.  An error is the sequence of its links, outermost first: the    *)
(* error itself, its cause, the cause of its cause, ...                    *)
(***************************************************************************)
EXTENDS Integers, Sequences, FiniteSets, TLC

\* ------------------------------------------------------------------ bounds
\* Largest number of entries of an inputValidators mapping.
MaxValidators == 2
\* Largest number of entries of an Outputs mapping a handler resolves to.
MaxOutputs == 2
\* Largest number of causes chained under an error a handler fails with.
MaxCauses == 1

\* ------------------------------------------------------- JavaScript values
Undefined == [t |-> "undefined"]
Null == [t |-> "null"]
Str(s) == [t |-> "string", s |-> s]
Bool(b) == [t |-> "boolean", b |-> b]
Arr(a) == [t |-> "array", a |-> a]
\* An object: its own properties [key, value] in the order of Object.entries.
Obj(entries) == [t |-> "object", entries |-> entries]
\* A zero-argument Provider: a function value, identified by id, that either
\* returns ret or throws err when it is called.
Fn(id, throws, ret, err) ==
  [t |-> "function", id |-> id, throws |-> throws, ret |-> ret, err |-> err]

EmptyString == Str(<< >>)

\* `x == null` of JavaScript: true of null and of undefined.
isNullish(x) == x = Undefined \/ x = Null

\* isFunction of @infra-blocks/types.
isFunction(x) == x.t = "function"

\* ------------------------------------------------------------------ errors
\* One link of an error: its name and its own message (a token sequence).
Link(name, message) == [name |-> name, message |-> message]

\* new Error(message) / Error(message).
NewError(message) == << Link("Error", message) >>

\* new VError({ name, cause }, message): a new outermost link over the cause.
NewVError(name, cause, message) == << Link(name, message) >> \o cause

\* The message property of an error: VError appends ": " and the message of
\* the cause to its own message.
RECURSIVE messageOf(_)
messageOf(err) ==
  IF Len(err) = 1 THEN err[1].message
  ELSE err[1].message \o << ": " >> \o messageOf(Tail(err))

\* The stack property of an error, without its frames: "name: message".
stackOf(err) == << err[1].name, ": " >> \o messageOf(err)

\* A faulty rendering: the message of the error alone, causes dropped.
fullStackMessageOnly(err) == err[1].message

\* VError.fullStack(err): the stack of the error followed by "caused by: " and
\* the full stack of its cause, down the whole chain.
RECURSIVE fullStack(_)
fullStack(err) ==
  IF Len(err) = 1 THEN stackOf(err)
  ELSE stackOf(err) \o << "\ncaused by: " >> \o fullStack(Tail(err))

\* The outcome of a call that throws, and of one that returns: calls lists the
\* default providers the call invoked, each with the arguments it was given.
Throw(err, calls) == [ok |-> FALSE, err |-> err, calls |-> calls]
Return(value, calls) == [ok |-> TRUE, value |-> value, calls |-> calls]

\* --------------------------------------------------------------- validators
\* The options object of a validator: `own` is the set of its own property
\* names; a property that is not an own property reads as undefined.
Options(own, default, choices, separator, trim, name) ==
  [own |-> own,
   default |-> IF "default" \in own THEN default ELSE Undefined,
   choices |-> IF "choices" \in own THEN choices ELSE Undefined,
   separator |-> IF "separator" \in own THEN separator ELSE Undefined,
   trim |-> IF "trim" \in own THEN trim ELSE Undefined,
   name |-> IF "name" \in own THEN name ELSE Undefined]

\* Object.prototype.hasOwnProperty.call(options, key).
hasOwnProperty(options, key) == key \in options.own

\* A faulty test of "required": on the value of `default`, not on the key.
requiredByValue(options) ==
  isNullish(options) \/ isNullish(options.default)

\* parseInput, lines 68-70: the input is required when no options are given
\* or when the options have no own property `default`.
required(options) ==
  isNullish(options) \/ ~hasOwnProperty(options, "default")

\* A faulty test of "missing": the empty string counts as a value.
isMissingUndefinedOnly(input) == isNullish(input)

\* parseInput, line 73: input == null || input === "".
isMissing(input) == isNullish(input) \/ input = EmptyString

\* Calling a Provider with no arguments.
callProvider(fn) ==
  LET call == [id |-> fn.id, args |-> << >>]
  IN IF fn.throws THEN Throw(fn.err, << call >>)
     ELSE Return(fn.ret, << call >>)

\* String.prototype.trim on a sequence of characters: white space and line
\* terminators are removed at both ends.
isSpace(c) == c \in { " ", "\t", "\n", "\r" }
RECURSIVE trimStart(_)
trimStart(s) ==
  IF s # << >> /\ isSpace(Head(s)) THEN trimStart(Tail(s)) ELSE s
RECURSIVE trimEnd(_)
trimEnd(s) ==
  IF s # << >> /\ isSpace(s[Len(s)]) THEN trimEnd(SubSeq(s, 1, Len(s) - 1))
  ELSE s
trim(s) == trimEnd(trimStart(s))

\* A separator that is a RegExp: a pattern that matches the literal text
\* `source`, written with a capturing group around it (/(;)/) or without (/;/).
RegExp(source, capturing) ==
  [t |-> "regexp", source |-> source, capturing |-> capturing]

\* Whether the text `pattern` stands at the start of s, and s without its
\* first n characters.
startsWith(s, pattern) ==
  Len(pattern) <= Len(s) /\ SubSeq(s, 1, Len(pattern)) = pattern
drop(s, n) == SubSeq(s, n + 1, Len(s))

\* The scan of String.prototype.split for a separator that matches the
\* non-empty text `pattern`: at each match, left to right, the token read so
\* far is pushed, then the captures of the match, and the scan resumes after
\* the match; the rest of the string is the last token.
RECURSIVE splitFrom(_, _, _, _)
splitFrom(s, pattern, captures, token) ==
  IF s = << >> THEN << token >>
  ELSE IF startsWith(s, pattern)
       THEN << token >> \o captures
            \o splitFrom(drop(s, Len(pattern)), pattern, captures, << >>)
       ELSE splitFrom(Tail(s), pattern, captures, Append(token, Head(s)))

\* String.prototype.split(separator) on a non-empty string: the separator is a
\* string (the empty one splits between all characters) or a RegExp, whose
\* capturing group adds the matched text to the tokens.
split(s, separator) ==
  IF separator.t = "regexp"
  THEN splitFrom(s, separator.source,
                 IF separator.capturing THEN << separator.source >> ELSE << >>,
                 << >>)
  ELSE IF separator.s = << >> THEN [i \in 1..Len(s) |-> << s[i] >>]
       ELSE splitFrom(s, separator.s, << >>, << >>)

\* Array.prototype.includes over a sequence.
includes(seq, x) == \E i \in 1..Len(seq) : seq[i] = x

\* A faulty transform of stringInput: the choices are never consulted.
stringTransformAccepting(choices, input) == Return(input, << >>)

\* The transform closure of stringInput, lines 134-146.
stringTransform(choices, input) ==
  IF isNullish(choices) \/ Len(choices.a) = 0 THEN Return(input, << >>)
  ELSE IF ~includes(choices.a, input.s)
       THEN Throw(NewError(<< "invalid value: " >> \o input.s
                           \o << " for string input with choices" >>), << >>)
       ELSE Return(input, << >>)

\* The transform closure of arrayInput, lines 192-198.
arrayTransform(separator, trimTokens, input) ==
  LET tokens == split(input.s, separator)
  IN IF ~trimTokens THEN Return(Arr(tokens), << >>)
     ELSE Return(Arr([i \in 1..Len(tokens) |-> trim(tokens[i])]), << >>)

\* A faulty transform of booleanInput: whatever is not "true" is false.
booleanTransformFalsy(input) ==
  IF input = Str(<< "t", "r", "u", "e" >>) THEN Return(Bool(TRUE), << >>)
  ELSE Return(Bool(FALSE), << >>)

\* The transform of booleanInput, lines 224-232.
booleanTransform(input) ==
  IF input = Str(<< "t", "r", "u", "e" >>) THEN Return(Bool(TRUE), << >>)
  ELSE IF input = Str(<< "f", "a", "l", "s", "e" >>)
       THEN Return(Bool(FALSE), << >>)
       ELSE Throw(NewError(<< "invalid boolean input: " >> \o input.s), << >>)

\* transform(input): the closure a validator hands to parseInput, applied.
applyTransform(transform, input) ==
  CASE transform.kind = "string" -> stringTransform(transform.choices, input)
    [] transform.kind = "array" ->
         arrayTransform(transform.separator, transform.trim, input)
    [] transform.kind = "boolean" -> booleanTransform(input)

\* A faulty missing-value branch: the error of a throwing provider is absorbed
\* and the input resolves to undefined.
resolveDefaultAbsorbing(options) ==
  IF required(options)
  THEN Throw(NewError(<< "input is missing value and no default was provided" >>),
             << >>)
  ELSE IF isFunction(options.default)
       THEN LET r == callProvider(options.default)
            IN IF r.ok THEN r ELSE Return(Undefined, r.calls)
       ELSE Return(options.default, << >>)

\* A faulty missing-value branch: the provider is called a second time to get
\* the value.
resolveDefaultTwice(options) ==
  IF required(options)
  THEN Throw(NewError(<< "input is missing value and no default was provided" >>),
             << >>)
  ELSE IF isFunction(options.default)
       THEN LET r == callProvider(options.default)
            IN IF r.ok THEN Return(r.value, r.calls \o r.calls)
               ELSE Throw(NewVError("VError", r.err,
                                    << "default value provider threw" >>),
                          r.calls)
       ELSE Return(options.default, << >>)

\* parseInput, lines 74-91: the branch taken when the input is missing.
resolveDefault(options) ==
  IF required(options)
  THEN Throw(NewError(<< "input is missing value and no default was provided" >>),
             << >>)
  ELSE IF isFunction(options.default)
       THEN LET r == callProvider(options.default)
            IN IF r.ok THEN r
               ELSE Throw(NewVError("VError", r.err,
                                    << "default value provider threw" >>),
                          r.calls)
       ELSE Return(options.default, << >>)

\* A faulty parseInput: a resolved default that is a string goes through the
\* transform, as a raw value does.
parseInputTransformingDefault(input, transform, options) ==
  IF isMissing(input)
  THEN LET d == resolveDefault(options)
       IN IF d.ok /\ d.value.t = "string" /\ transform.kind = "string"
          THEN LET r == applyTransform(transform, d.value)
               IN [r EXCEPT !.calls = d.calls \o r.calls]
          ELSE d
  ELSE applyTransform(transform, input)

\* A faulty parseInput: the default is resolved before the input is looked at.
parseInputEager(input, transform, options) ==
  LET d == resolveDefault(options)
  IN IF isMissing(input) THEN d
     ELSE LET r == applyTransform(transform, input)
          IN [r EXCEPT !.calls = d.calls \o r.calls]

\* parseInput, lines 63-94.
parseInput(input, transform, options) ==
  IF isMissing(input) THEN resolveDefault(options)
  ELSE applyTransform(transform, input)

\* stringInput(options): the validator, an object with a parse method; name is
\* the override of the input name (part_002 only).
stringInput(options) ==
  [kind |-> "string", options |-> options,
   name |-> IF isNullish(options) THEN Undefined ELSE options.name,
   transform |-> [kind |-> "string",
                  choices |-> IF isNullish(options) THEN Undefined
                              ELSE options.choices]]

\* arrayInput(options): separator defaults to ",", trim to false.
arrayInput(options) ==
  [kind |-> "array", options |-> options,
   name |-> IF isNullish(options) THEN Undefined ELSE options.name,
   transform |-> [kind |-> "array",
                  separator |-> IF isNullish(options)
                                   \/ ~hasOwnProperty(options, "separator")
                                THEN Str(<< "," >>) ELSE options.separator,
                  trim |-> IF isNullish(options) \/ ~hasOwnProperty(options, "trim")
                           THEN FALSE ELSE options.trim]]

\* booleanInput(options).
booleanInput(options) ==
  [kind |-> "boolean", options |-> options,
   name |-> IF isNullish(options) THEN Undefined ELSE options.name,
   transform |-> [kind |-> "boolean"]]

\* validator.parse(input).
parse(validator, input) ==
  parseInput(input, validator.transform, validator.options)

\* ------------------------------------------------------------- environment
LowerCase ==
  << "a", "b", "c", "d", "e", "f", "g", "h", "i", "j", "k", "l", "m",
     "n", "o", "p", "q", "r", "s", "t", "u", "v", "w", "x", "y", "z" >>
UpperCase ==
  << "A", "B", "C", "D", "E", "F", "G", "H", "I", "J", "K", "L", "M",
     "N", "O", "P", "Q", "R", "S", "T", "U", "V", "W", "X", "Y", "Z" >>

\* String.prototype.toUpperCase, character by character.
upperChar(c) ==
  IF \E i \in 1..Len(LowerCase) : LowerCase[i] = c
  THEN UpperCase[CHOOSE i \in 1..Len(LowerCase) : LowerCase[i] = c]
  ELSE c
toUpperCase(s) == [i \in 1..Len(s) |-> upperChar(s[i])]

\* name.replace(/ /g, "_").
replaceSpaces(s) == [i \in 1..Len(s) |-> IF s[i] = " " THEN "_" ELSE s[i]]

\* A faulty key: the name is not upper-cased.
envKeyNoUpper(name) == << "I", "N", "P", "U", "T", "_" >> \o replaceSpaces(name)

\* The environment key of an input: `INPUT_${name.replace(/ /g, "_").toUpperCase()}`.
envKey(name) ==
  << "I", "N", "P", "U", "T", "_" >> \o toUpperCase(replaceSpaces(name))

\* process.env[key]: undefined when the variable is not set.
lookup(environment, key) ==
  IF key \in DOMAIN environment THEN environment[key] ELSE Undefined

\* getInput(name), github-action.ts lines 275-277.
getInput(name, environment) == lookup(environment, envKey(name))

\* The two revisions of github-action.ts the repository holds.
Rev010 == "0.10.0"
Rev011 == "0.11.0"
Revisions == { Rev010, Rev011 }

\* The name getInputs looks an entry up by: the key of the entry in
\* github-action.ts (line 253); `validator.name || key` in part_002 (line 293).
inputNameOf(rev, entry) ==
  IF rev = Rev011 /\ ~isNullish(entry.validator.name)
     /\ entry.validator.name # EmptyString
  THEN entry.validator.name.s
  ELSE entry.key

\* A faulty loop of getInputs: a failing entry is skipped, the loop goes on.
RECURSIVE getInputsSkipping(_, _, _, _, _, _)
getInputsSkipping(rev, entries, environment, i, result, calls) ==
  IF i > Len(entries) THEN Return(Obj(result), calls)
  ELSE LET entry == entries[i]
           input == getInput(inputNameOf(rev, entry), environment)
           r == parse(entry.validator, input)
       IN IF r.ok
          THEN getInputsSkipping(rev, entries, environment, i + 1,
                 Append(result, [key |-> entry.key, value |-> r.value]),
                 calls \o r.calls)
          ELSE getInputsSkipping(rev, entries, environment, i + 1, result,
                 calls \o r.calls)

\* The loop of getInputs from entry i on: result holds the properties
\* [key, value] of the record built so far, in insertion order.
RECURSIVE getInputsFrom(_, _, _, _, _, _)
getInputsFrom(rev, entries, environment, i, result, calls) ==
  IF i > Len(entries) THEN Return(Obj(result), calls)
  ELSE LET entry == entries[i]
           inputName == inputNameOf(rev, entry)
           input == getInput(inputName, environment)
           r == parse(entry.validator, input)
       IN IF r.ok
          THEN getInputsFrom(rev, entries, environment, i + 1,
                 Append(result, [key |-> entry.key, value |-> r.value]),
                 calls \o r.calls)
          ELSE Throw(NewVError("GetInputsError", r.err,
                               << "error parsing input " >> \o inputName),
                     calls \o r.calls)

\* getInputs(inputValidators): the entries of inputValidators are the
\* [key, validator] pairs of the mapping, in the order of Object.entries.
getInputs(rev, validators, environment) ==
  getInputsFrom(rev, validators.entries, environment, 1, << >>, << >>)

\* -------------------------------------------------------------------- state
VARIABLES
  revision,        \* the revision of github-action.ts that runs
  env,             \* process.env: environment key -> string
  inputValidators, \* the inputValidators argument: undefined or the entries
  providerCalls,   \* every call of a default provider so far, with its arguments
  validator,       \* the validator under test, once constructed
  parseInputs,     \* the raw inputs given to validator.parse so far
  parseResults,    \* what each of those parse calls returned or threw
  inputs,          \* what the call of getInputs returned or threw, once made
  handler,         \* the handler given to runActionHandler
  isDebug,         \* what core.isDebug() answers
  contextBound,    \* whether the global scope binds the identifier `context`
  outputFault,     \* k > 0: the k-th call of core.setOutput throws; 0: none does
  pc,              \* where the run of runActionHandler stands
  promise,         \* the promise the handler returned
  reason,          \* the reason the promise given to .catch is rejected with
  handlerCalls,    \* the argument list of every call of the handler
  setOutputCalls,  \* the [key, value] of every completed core.setOutput call
  setFailedCalls,  \* the message of every core.setFailed call
  debugLines,      \* the lines given to core.debug
  escaped,         \* whether an exception left runActionHandler for its caller
  files,           \* the file system: path -> contents of the file at that path
  reads,           \* the paths given to readFile so far
  parsed,          \* what the promise of parseOutputs settled with, once called
  eventName,       \* the event name given to parseEvent and checkSupportedEvent
  supported,       \* the supported events given to checkSupportedEvent
  parsedEvent,     \* what parseEvent returned or threw, once called
  checkedEvent,    \* what checkSupportedEvent returned or threw, once called
  scope,           \* the owner and repository given to inRepositoryScope
  call,            \* the latest call of a client method, with what it returned
  requests,        \* the requests given to octokit.request by the call under way
  repositories,    \* the repositories the remote holds for the owner listed
  sequences,       \* how many listings of repositories were begun
  gen,             \* the async generator of the listing under way
  consumer,        \* the consumer of that generator: its pulls and what it got
  comments,        \* the comments the remote holds for the pull request
  nextId,          \* the id the remote gives the next comment posted
  robots           \* the calls of providePrComment: where each stands

parseVars == << validator, parseInputs, parseResults >>
runVars == << handler, isDebug, contextBound, outputFault, pc, promise, reason,
              handlerCalls, setOutputCalls, setFailedCalls, debugLines, escaped >>
outputsVars == << files, reads, parsed >>
eventVars == << eventName, supported, parsedEvent, checkedEvent >>
clientVars == << scope, call, requests >>
pageVars == << repositories, sequences, gen, consumer >>
robotVars == << comments, nextId, robots >>
vars == << revision, env, inputValidators, providerCalls, validator,
           parseInputs, parseResults, inputs, handler, isDebug, contextBound,
           outputFault, pc, promise, reason, handlerCalls, setOutputCalls,
           setFailedCalls, debugLines, escaped, files, reads, parsed,
           eventVars, clientVars, pageVars, robotVars >>

NoHandler == [behaviour |-> "none"]
NoPromise == [state |-> "none"]
NoReason == << >>

\* The variables of a run of runActionHandler, in a specification that makes none.
NoRun ==
  /\ handler = NoHandler
  /\ isDebug = FALSE
  /\ contextBound = FALSE
  /\ outputFault = 0
  /\ pc = "none"
  /\ promise = NoPromise
  /\ reason = NoReason
  /\ handlerCalls = << >>
  /\ setOutputCalls = << >>
  /\ setFailedCalls = << >>
  /\ debugLines = << >>
  /\ escaped = FALSE

NotParsed == [called |-> FALSE]
NotConstructed == [kind |-> "none"]
NotCalled == [ok |-> FALSE, called |-> FALSE]

\* The variables of parseEvent and checkSupportedEvent, in a specification
\* that calls neither.
NoEvents ==
  /\ eventName = << >>
  /\ supported = << >>
  /\ parsedEvent = NotCalled
  /\ checkedEvent = NotCalled

\* The variables of the GitHub client, in a specification that has none.
NoGenerator == [state |-> "none"]

\* The variables of Mister Robot, in a specification that has none.
NoRobot ==
  /\ comments = << >>
  /\ nextId = 0
  /\ robots = << >>
NoConsumer == [mode |-> "none"]

NoClient ==
  /\ scope = << >>
  /\ call = NotCalled
  /\ requests = << >>
  /\ repositories = << >>
  /\ sequences = 0
  /\ gen = NoGenerator
  /\ consumer = NoConsumer
  /\ NoRobot

\* The variables of parseOutputs, in a specification that does not call it.
NoOutputs ==
  /\ files = << >>
  /\ reads = << >>
  /\ parsed = NotParsed
  /\ NoEvents
  /\ NoClient

\* ------------------------------------------------------------- input values
Chars(n) ==
  CASE n = "true" -> << "t", "r", "u", "e" >>
    [] n = "false" -> << "f", "a", "l", "s", "e" >>
    [] n = "True" -> << "T", "r", "u", "e" >>
    [] n = "falsy" -> << "f", "a", "l", "s", "y" >>
    [] n = "left" -> << "l", "e", "f", "t" >>
    [] n = "step" -> << "s", "t", "e", "p" >>
    [] n = "one" -> << "o", "n", "e" >>
    [] n = "two" -> << "t", "w", "o" >>
    [] n = "four" -> << "f", "o", "u", "r" >>
    [] n = "a, b" -> << "a", ",", " ", "b" >>
    [] n = " a ;b\t" -> << " ", "a", " ", ";", "b", "\t" >>

\* The raw inputs a parse is tried on: absent, empty, and present ones.
RawInputs ==
  { Undefined, EmptyString } \cup
  { Str(Chars(n)) : n \in { "true", "false", "True", "falsy", "one", "four", "a, b",
                            " a ;b\t" } }

ProviderError == NewError(<< "provider failed" >>)

\* A value of the kind a validator resolves to, used as a default: it is none
\* of the declared choices and not what any raw input parses to.
DefaultValue(kind) ==
  CASE kind = "string" -> Str(Chars("two"))
    [] kind = "array" -> Arr(<< Chars("two") >>)
    [] kind = "boolean" -> Bool(TRUE)

\* The values of a `default` property: undefined, a value, and the providers
\* that return a value, return undefined, or throw.
Defaults(kind) ==
  { Undefined, DefaultValue(kind),
    Fn("provider", FALSE, DefaultValue(kind), ProviderError),
    Fn("provider", FALSE, Undefined, ProviderError),
    Fn("thrower", TRUE, Undefined, ProviderError) }

ChoiceLists == { Arr(<< >>), Arr(<< Chars("one"), Chars("four") >>) }

StringOptions ==
  { Undefined } \cup
  { Options(own, d, c, Undefined, Undefined, Undefined) :
      own \in SUBSET { "default", "choices" },
      d \in Defaults("string"), c \in ChoiceLists }

\* The values of a `separator` property: strings of one and of two
\* characters, and patterns without and with a capturing group.
Separators ==
  { Str(<< ";" >>), Str(<< ",", " " >>),
    RegExp(<< ";" >>, FALSE), RegExp(<< ";" >>, TRUE) }

ArrayOptions ==
  { Undefined } \cup
  { Options(own, d, Undefined, sep, tr, Undefined) :
      own \in SUBSET { "default", "separator", "trim" },
      d \in Defaults("array"), sep \in Separators, tr \in BOOLEAN }

BooleanOptions ==
  { Undefined } \cup
  { Options(own, d, Undefined, Undefined, Undefined, Undefined) :
      own \in SUBSET { "default" }, d \in Defaults("boolean") }

\* Every validator the three constructors build from these options.
Validators ==
  { stringInput(o) : o \in StringOptions } \cup
  { arrayInput(o) : o \in ArrayOptions } \cup
  { booleanInput(o) : o \in BooleanOptions }

\* Largest number of parse calls made on one validator.
MaxParses == 2

\* --------------------------------------------------------------- SpecInputs
\* Either one validator is constructed and its parse method is called on raw
\* inputs (InitParse, Construct, Parse), or getInputs is called on a mapping of
\* validators under an environment (InitInputs, GetInputs).
InitParse ==
  /\ revision \in Revisions
  /\ env = << >>
  /\ inputValidators = Undefined
  /\ providerCalls = << >>
  /\ validator = NotConstructed
  /\ parseInputs = << >>
  /\ parseResults = << >>
  /\ inputs = NotCalled
  /\ NoRun
  /\ NoOutputs

\* stringInput(options), arrayInput(options) or booleanInput(options).
Construct ==
  /\ inputValidators = Undefined
  /\ validator = NotConstructed
  /\ \E v \in Validators : validator' = v
  /\ UNCHANGED << revision, env, inputValidators, providerCalls, parseInputs,
                  parseResults, inputs, runVars, outputsVars,
                  eventVars, clientVars, pageVars, robotVars >>

\* validator.parse(input).
Parse ==
  /\ validator # NotConstructed
  /\ Len(parseInputs) < MaxParses
  /\ \E input \in RawInputs :
       LET r == parse(validator, input)
       IN /\ parseInputs' = Append(parseInputs, input)
          /\ parseResults' = Append(parseResults, r)
          /\ providerCalls' = providerCalls \o r.calls
  /\ UNCHANGED << revision, env, inputValidators, validator, inputs, runVars,
                  outputsVars,
                  eventVars, clientVars, pageVars, robotVars >>

\* ------------------------------------------------------- inputs of getInputs
\* The field names of the validator mappings, in the order they are drawn on.
FieldNames == << Chars("left"), Chars("step"), << "a", " ", "b" >> >>

\* The sequences of n distinct field names.
RECURSIVE KeyLists(_)
KeyLists(n) ==
  IF n = 0 THEN { << >> }
  ELSE { Append(ks, k) : ks \in KeyLists(n - 1),
                         k \in { FieldNames[i] : i \in 1..Len(FieldNames) } }

Distinct(ks) == \A i, j \in 1..Len(ks) : ks[i] = ks[j] => i = j

\* The validators of the mappings getInputs is tried on.
InputValidators ==
  { stringInput(Undefined),
    booleanInput(Undefined),
    stringInput(Options({ "default" }, Fn("thrower", TRUE, Undefined, ProviderError),
                        Undefined, Undefined, Undefined, Undefined)),
    stringInput(Options({ "default" }, Fn("provider", FALSE, Str(Chars("two")), ProviderError),
                        Undefined, Undefined, Undefined, Undefined)),
    stringInput(Options({ "name" }, Undefined, Undefined, Undefined, Undefined,
                        Str(<< "a", " ", "b" >>))),
    stringInput(Options({ "name" }, Undefined, Undefined, Undefined, Undefined,
                        EmptyString)) }

\* The options of release 0.10.0 have no `name` (lines 96-127), those of
\* release 0.11.0 have one (part_002, lines 98-138).
NamesAllowed(rev, mapping) ==
  rev = Rev010 =>
    \A i \in 1..Len(mapping.entries) :
      isNullish(mapping.entries[i].validator.name)

\* The mappings of at most MaxValidators entries, as Object.entries lists them.
ValidatorMappings ==
  UNION { { Obj([i \in 1..n |-> [key |-> ks[i], validator |-> vs[i]]]) :
              ks \in { l \in KeyLists(n) : Distinct(l) },
              vs \in [1..n -> InputValidators] } : n \in 0..MaxValidators }

\* The environment keys of the field names, and the environments over them:
\* a variable is unset (undefined), empty, or holds a value.
EnvKeys == { envKey(FieldNames[i]) : i \in 1..Len(FieldNames) }
Environments ==
  [EnvKeys -> { Undefined, EmptyString, Str(Chars("left")), Str(Chars("false")) }]

InitInputs ==
  /\ revision \in Revisions
  /\ env \in Environments
  /\ inputValidators \in ValidatorMappings
  /\ NamesAllowed(revision, inputValidators)
  /\ providerCalls = << >>
  /\ validator = NotConstructed
  /\ parseInputs = << >>
  /\ parseResults = << >>
  /\ inputs = NotCalled
  /\ NoRun
  /\ NoOutputs

\* getInputs(inputValidators).
GetInputs ==
  /\ inputValidators # Undefined
  /\ inputs = NotCalled
  /\ LET r == getInputs(revision, inputValidators, env)
     IN /\ inputs' = r
        /\ providerCalls' = providerCalls \o r.calls
  /\ UNCHANGED << revision, env, inputValidators, parseVars, runVars,
                  outputsVars,
                  eventVars, clientVars, pageVars, robotVars >>

NextInputs == Construct \/ Parse \/ GetInputs

SpecInputs == (InitParse \/ InitInputs) /\ [][NextInputs]_vars

\* ------------------------------------------------------ claims on parse
\* What the claims say of a validator, read off its options alone.
HasDefaultKey(v) == v.options # Undefined /\ "default" \in v.options.own
HasProvider(v) == HasDefaultKey(v) /\ v.options.default.t = "function"
IsMissingRaw(input) == input \in { Undefined, EmptyString }
Parsed == validator # NotConstructed
ParseCalls == 1..Len(parseInputs)
\* The outcome of a parse call: what it returned, or the error it threw.
Outcome(r) == IF r.ok THEN << "returned", r.value >> ELSE << "threw", r.err >>

\* C7: a validator whose options carry no `default` key fails to parse a
\* missing raw value, and the absent raw value and the empty string have the
\* same outcome on every validator.
C7_RequiredFailsOnMissing ==
  Parsed =>
    /\ \A i \in ParseCalls :
         (~HasDefaultKey(validator) /\ IsMissingRaw(parseInputs[i]))
           => ~parseResults[i].ok
    /\ \A i, j \in ParseCalls :
         (IsMissingRaw(parseInputs[i]) /\ IsMissingRaw(parseInputs[j]))
           => Outcome(parseResults[i]) = Outcome(parseResults[j])

\* A required array validator has been given the absent raw value and then
\* the empty string, and has failed on both.
C7_Witness ==
  /\ Parsed
  /\ ~HasDefaultKey(validator)
  /\ validator.kind = "array"
  /\ parseInputs = << Undefined, EmptyString >>
  /\ ~parseResults[1].ok /\ ~parseResults[2].ok

\* C8: on a missing raw value a validator whose `default` key holds a value
\* that is no function resolves to exactly that value, undefined included; it
\* is the key that makes the input optional: without the key the parse fails.
C8_StaticDefaultResolves ==
  Parsed =>
    \A i \in ParseCalls :
      IsMissingRaw(parseInputs[i]) =>
        /\ (HasDefaultKey(validator) /\ ~HasProvider(validator))
             => /\ parseResults[i].ok
                /\ parseResults[i].value = validator.options.default
        /\ ~HasDefaultKey(validator) => ~parseResults[i].ok

\* Options with `default: undefined` have resolved the empty string to
\* undefined.
C8_Witness ==
  /\ Parsed
  /\ HasDefaultKey(validator)
  /\ validator.options.default = Undefined
  /\ Len(parseInputs) >= 1
  /\ parseInputs[1] = EmptyString
  /\ parseResults[1].ok
  /\ parseResults[1].value = Undefined

\* The number of missing raw values among the first n parse calls.
RECURSIVE MissingAmong(_)
MissingAmong(n) ==
  IF n = 0 THEN 0
  ELSE MissingAmong(n - 1) + (IF IsMissingRaw(parseInputs[n]) THEN 1 ELSE 0)

\* C9: with a provider as default, a parse of a missing raw value calls the
\* provider exactly once, with no arguments, and resolves to what it returned;
\* a parse of a present raw value never calls it; constructing the validator
\* calls nothing.
C9_ProviderCalledLazilyOnce ==
  /\ (parseInputs = << >> /\ inputs = NotCalled) => providerCalls = << >>
  /\ (Parsed /\ HasProvider(validator)) =>
       /\ Len(providerCalls) = MissingAmong(Len(parseInputs))
       /\ \A k \in 1..Len(providerCalls) :
            providerCalls[k] = [id |-> validator.options.default.id, args |-> << >>]
       /\ \A i \in ParseCalls :
            /\ IsMissingRaw(parseInputs[i]) =>
                 /\ Len(parseResults[i].calls) = 1
                 /\ ~validator.options.default.throws =>
                      /\ parseResults[i].ok
                      /\ parseResults[i].value = validator.options.default.ret
            /\ ~IsMissingRaw(parseInputs[i]) => parseResults[i].calls = << >>
  /\ (Parsed /\ ~HasProvider(validator)) => providerCalls = << >>

\* A validator with a provider default has parsed a present raw value and then
\* a missing one: the provider has been called once.
C9_Witness ==
  /\ Parsed
  /\ HasProvider(validator)
  /\ Len(parseInputs) = 2
  /\ ~IsMissingRaw(parseInputs[1])
  /\ IsMissingRaw(parseInputs[2])
  /\ Len(providerCalls) = 1
  /\ parseResults[2].ok
  /\ parseResults[2].value = DefaultValue(validator.kind)

\* C10: when a default provider throws on the missing-value path, parse fails
\* with an error whose cause is the error of the provider; the failure is not
\* turned into a resolved value, so getInputs fails too, with the parse error
\* as the cause of its own, and returns no record.
C10_ProviderFailureIsWrapped ==
  /\ (Parsed /\ HasProvider(validator) /\ validator.options.default.throws) =>
       \A i \in ParseCalls :
         IsMissingRaw(parseInputs[i]) =>
           /\ ~parseResults[i].ok
           /\ Len(parseResults[i].err) = 1 + Len(validator.options.default.err)
           /\ Tail(parseResults[i].err) = validator.options.default.err
  /\ (inputValidators # Undefined /\ inputs # NotCalled
      /\ \E k \in 1..Len(providerCalls) : providerCalls[k].id = "thrower") =>
       /\ ~inputs.ok
       /\ "value" \notin DOMAIN inputs
       /\ Len(inputs.err) = 2 + Len(ProviderError)
       /\ inputs.err[1].name = "GetInputsError"
       /\ Tail(Tail(inputs.err)) = ProviderError

\* getInputs has reached an entry whose provider throws, after an entry that
\* resolved, and has failed.
C10_Witness ==
  /\ inputValidators # Undefined
  /\ inputs # NotCalled
  /\ Len(inputValidators.entries) = 2
  /\ providerCalls = << [id |-> "thrower", args |-> << >>] >>
  /\ HasProvider(inputValidators.entries[2].validator)
  /\ ~inputs.ok

\* What the claims on choices say of a string validator.
HasChoices(v) ==
  /\ v.options # Undefined
  /\ "choices" \in v.options.own
  /\ v.options.choices.a # << >>
IsChoice(v, input) ==
  \E k \in 1..Len(v.options.choices.a) : Str(v.options.choices.a[k]) = input

\* C11: a stringInput with a non-empty `choices` sequence returns a present
\* raw value unchanged when it equals one of the choices and fails otherwise;
\* without choices every present raw value is returned unchanged.
C11_ChoicesAcceptOnlyMembers ==
  (Parsed /\ validator.kind = "string") =>
    \A i \in ParseCalls :
      ~IsMissingRaw(parseInputs[i]) =>
        IF HasChoices(validator) /\ ~IsChoice(validator, parseInputs[i])
        THEN ~parseResults[i].ok
        ELSE /\ parseResults[i].ok
             /\ parseResults[i].value = parseInputs[i]

\* A stringInput with choices has accepted one of them and then rejected a
\* value that is none of them.
C11_Witness ==
  /\ Parsed
  /\ validator.kind = "string"
  /\ HasChoices(validator)
  /\ Len(parseInputs) = 2
  /\ IsChoice(validator, parseInputs[1])
  /\ parseResults[1] = Return(parseInputs[1], << >>)
  /\ ~IsMissingRaw(parseInputs[2])
  /\ ~IsChoice(validator, parseInputs[2])
  /\ ~parseResults[2].ok

\* C12: the choices are checked on a present raw value only: a stringInput
\* with choices and a default that is none of them resolves a missing raw
\* value to that default (the static value, or what the provider returns)
\* without failing.
C12_DefaultNotCheckedAgainstChoices ==
  (Parsed /\ validator.kind = "string" /\ HasChoices(validator)
   /\ HasDefaultKey(validator)) =>
    LET d == validator.options.default
        resolved == IF d.t = "function" THEN d.ret ELSE d
    IN (~(d.t = "function" /\ d.throws) /\ ~IsChoice(validator, resolved)) =>
         \A i \in ParseCalls :
           IsMissingRaw(parseInputs[i]) =>
             /\ parseResults[i].ok
             /\ parseResults[i].value = resolved

\* A stringInput with choices and a provider of a string that is none of the
\* choices has resolved the empty string to that string.
C12_Witness ==
  /\ Parsed
  /\ validator.kind = "string"
  /\ HasChoices(validator)
  /\ HasProvider(validator)
  /\ validator.options.default.ret = Str(Chars("two"))
  /\ Len(parseInputs) >= 1
  /\ parseInputs[1] = EmptyString
  /\ parseResults[1].ok
  /\ parseResults[1].value = Str(Chars("two"))

\* What the claim on arrayInput says, read off the options and the raw value:
\* the text the separator stands for, the places of the raw value where it
\* occurs, and the tokens between those places.
SeparatorOf(v) ==
  IF v.options = Undefined \/ "separator" \notin v.options.own THEN << "," >>
  ELSE IF v.options.separator.t = "regexp" THEN v.options.separator.source
       ELSE v.options.separator.s
TrimOn(v) ==
  IF v.options = Undefined \/ "trim" \notin v.options.own THEN FALSE
  ELSE v.options.trim
OccurrencesOf(sep, raw) ==
  { p \in 1..Len(raw) :
      p + Len(sep) - 1 <= Len(raw) /\ SubSeq(raw, p, p + Len(sep) - 1) = sep }
\* The k-th smallest element of a set of numbers.
Nth(S, k) == CHOOSE p \in S : Cardinality({ q \in S : q < p }) = k - 1
\* The k-th token: what stands between the (k-1)-th and the k-th occurrence.
TokenBetween(sep, raw, k) ==
  LET occ == OccurrencesOf(sep, raw)
      from == IF k = 1 THEN 1 ELSE Nth(occ, k - 1) + Len(sep)
      to == IF k = Cardinality(occ) + 1 THEN Len(raw) ELSE Nth(occ, k) - 1
  IN SubSeq(raw, from, to)
IsBlank(c) == c \in { " ", "\t", "\n", "\r" }
\* r is t without its leading and trailing white space.
IsTrimOf(r, t) ==
  /\ r # << >> => (~IsBlank(r[1]) /\ ~IsBlank(r[Len(r)]))
  /\ \E a \in 0..Len(t) :
       /\ a + Len(r) <= Len(t)
       /\ SubSeq(t, a + 1, a + Len(r)) = r
       /\ \A j \in 1..Len(t) : (j <= a \/ j > a + Len(r)) => IsBlank(t[j])
\* The i-th parse call resolved to the tokens between the occurrences of the
\* separator, trimmed when `trim` is on.
SplitAtSeparators(i) ==
  LET raw == parseInputs[i].s
      sep == SeparatorOf(validator)
      n == Cardinality(OccurrencesOf(sep, raw))
  IN /\ parseResults[i].ok
     /\ parseResults[i].value.t = "array"
     /\ Len(parseResults[i].value.a) = n + 1
     /\ \A k \in 1..(n + 1) :
          IF TrimOn(validator)
          THEN IsTrimOf(parseResults[i].value.a[k], TokenBetween(sep, raw, k))
          ELSE parseResults[i].value.a[k] = TokenBetween(sep, raw, k)

\* C13: for a present raw value, arrayInput resolves to the ordered tokens
\* obtained by splitting the raw value at every occurrence of the separator
\* (comma by default): one token more than there are occurrences, left
\* untouched when `trim` is off and stripped of leading and trailing white
\* space when it is on.
C13_ArraySplitsAtEverySeparator ==
  (Parsed /\ validator.kind = "array") =>
    \A i \in ParseCalls :
      ~IsMissingRaw(parseInputs[i]) => SplitAtSeparators(i)

\* C14: for a present raw value, booleanInput resolves to true exactly for
\* "true" and to false exactly for "false"; every other present raw value is
\* a parse failure, whatever the default.
C14_BooleanAcceptsOnlyTrueFalse ==
  (Parsed /\ validator.kind = "boolean") =>
    \A i \in ParseCalls :
      ~IsMissingRaw(parseInputs[i]) =>
        /\ parseResults[i].calls = << >>
        /\ IF parseInputs[i].s = << "t", "r", "u", "e" >>
           THEN parseResults[i].ok /\ parseResults[i].value = Bool(TRUE)
           ELSE IF parseInputs[i].s = << "f", "a", "l", "s", "e" >>
                THEN parseResults[i].ok /\ parseResults[i].value = Bool(FALSE)
                ELSE ~parseResults[i].ok

\* A booleanInput with a default has resolved "false" to false and has then
\* failed on "True".
C14_Witness ==
  /\ Parsed
  /\ validator.kind = "boolean"
  /\ HasDefaultKey(validator)
  /\ parseInputs = << Str(Chars("false")), Str(Chars("True")) >>
  /\ parseResults[1] = Return(Bool(FALSE), << >>)
  /\ ~parseResults[2].ok

\* ------------------------------------------------------ claims on getInputs
GetInputsCalled == inputValidators # Undefined /\ inputs # NotCalled
Entries == inputValidators.entries
\* What the claims say of the lookup of entry i, read off the mapping and the
\* environment: the name looked up (the override when the validator carries a
\* non-empty one, the field name otherwise), the environment key of that name,
\* and the raw value found there.
LookupName(i) ==
  IF Entries[i].validator.name.t = "string" /\ Entries[i].validator.name.s # << >>
  THEN Entries[i].validator.name.s
  ELSE Entries[i].key
EnvKeyOf(name) ==
  CASE name = << "l", "e", "f", "t" >> ->
         << "I", "N", "P", "U", "T", "_", "L", "E", "F", "T" >>
    [] name = << "s", "t", "e", "p" >> ->
         << "I", "N", "P", "U", "T", "_", "S", "T", "E", "P" >>
    [] name = << "a", " ", "b" >> ->
         << "I", "N", "P", "U", "T", "_", "A", "_", "B" >>
RawOf(i) ==
  IF EnvKeyOf(LookupName(i)) \in DOMAIN env THEN env[EnvKeyOf(LookupName(i))]
  ELSE Undefined
\* Whether the parse of a raw value by a validator fails, as C7 to C14 say.
ParseFails(v, raw) ==
  IF IsMissingRaw(raw)
  THEN ~HasDefaultKey(v) \/ (HasProvider(v) /\ v.options.default.throws)
  ELSE \/ v.kind = "boolean"
          /\ raw.s \notin { << "t", "r", "u", "e" >>, << "f", "a", "l", "s", "e" >> }
       \/ v.kind = "string" /\ HasChoices(v) /\ ~IsChoice(v, raw)
Failing == { i \in 1..Len(Entries) : ParseFails(Entries[i].validator, RawOf(i)) }
FirstFailing == CHOOSE f \in Failing : \A g \in Failing : f <= g
\* The entries up to the n-th whose parse calls the default provider.
CallingProvider(n) ==
  { j \in 1..n : HasProvider(Entries[j].validator) /\ IsMissingRaw(RawOf(j)) }

\* C15: getInputs is fail-fast.  At the first entry, in mapping order, whose
\* parse fails it throws a GetInputsError that names the input and has the
\* parse failure as its cause, returns no record, and parses no later entry:
\* no provider of a later entry is called.  When no parse fails, the record
\* has exactly the field names of the mapping.
C15_GetInputsFailsFast ==
  GetInputsCalled =>
    IF Failing # {}
    THEN /\ ~inputs.ok
         /\ "value" \notin DOMAIN inputs
         /\ inputs.err[1].name = "GetInputsError"
         /\ inputs.err[1].message
              = << "error parsing input " >> \o LookupName(FirstFailing)
         /\ Tail(inputs.err)
              = parse(Entries[FirstFailing].validator, RawOf(FirstFailing)).err
         /\ Len(providerCalls) = Cardinality(CallingProvider(FirstFailing))
    ELSE /\ inputs.ok
         /\ Len(inputs.value.entries) = Len(Entries)
         /\ \A i \in 1..Len(Entries) :
              inputs.value.entries[i].key = Entries[i].key
         /\ Len(providerCalls) = Cardinality(CallingProvider(Len(Entries)))

\* getInputs has failed at the first of two entries, a required input whose
\* variable is not set; the second entry has a provider that was not called,
\* though its raw value is missing too.
C15_Witness ==
  /\ GetInputsCalled
  /\ Len(Entries) = 2
  /\ FirstFailing = 1
  /\ RawOf(1) = Undefined
  /\ HasProvider(Entries[2].validator)
  /\ IsMissingRaw(RawOf(2))
  /\ ~inputs.ok
  /\ providerCalls = << >>

\* C16: getInputs reads the raw value of a field from the variable INPUT_<N>,
\* N being the field name with spaces replaced by underscores and upper-cased;
\* a `name` the validator carries replaces the field name in the lookup, and
\* the value is stored under the field name all the same.  (An empty `name`
\* is no override: `validator.name || key`.)
C16_LookupKeyAndOverride ==
  GetInputsCalled =>
    \A i \in 1..Len(Entries) :
      (Entries[i].validator.kind = "string"
       /\ ~HasDefaultKey(Entries[i].validator)) =>
        /\ IsMissingRaw(RawOf(i)) => ~inputs.ok
        /\ inputs.ok =>
             inputs.value.entries[i] = [key |-> Entries[i].key, value |-> RawOf(i)]

\* The field "left" carries the name "a b": its value is the one of
\* INPUT_A_B, not the one of INPUT_LEFT; the field "a b" next to it, without
\* a name, has the same value.
C16_Witness ==
  /\ GetInputsCalled
  /\ revision = Rev011
  /\ Len(Entries) = 2
  /\ Entries[1].key = << "l", "e", "f", "t" >>
  /\ Entries[1].validator.name = Str(<< "a", " ", "b" >>)
  /\ Entries[2].key = << "a", " ", "b" >>
  /\ isNullish(Entries[2].validator.name)
  /\ env[<< "I", "N", "P", "U", "T", "_", "A", "_", "B" >>] = Str(Chars("false"))
  /\ env[<< "I", "N", "P", "U", "T", "_", "L", "E", "F", "T" >>] = Str(Chars("left"))
  /\ inputs.ok
  /\ inputs.value.entries[1].value = Str(Chars("false"))
  /\ inputs.value.entries[2].value = Str(Chars("false"))

\* ------------------------------------------------------ runActionHandler
\* The errors the JavaScript runtime raises in runActionHandler.
\* `context` (github-action.ts line 374, part_002 line 392) is a free
\* identifier of the module: nothing imports or declares it, so reading it
\* throws a ReferenceError unless the global scope binds it.
ContextReferenceError ==
  << Link("ReferenceError", << "context is not defined" >>) >>
\* Object.entries(undefined) and Object.entries(null).
EntriesTypeError ==
  << Link("TypeError", << "Cannot convert undefined or null to object" >>) >>
\* What a failing core.setOutput throws.
SetOutputError == NewError(<< "setOutput failed" >>)

\* A faulty call: the handler of github-action.ts is given the record itself,
\* the handler of part_002 the wrapped one.
handlerArgumentsSwapped(rev, resolved) ==
  IF rev = Rev011
  THEN << Obj(<< [key |-> << "i", "n", "p", "u", "t", "s" >>, value |-> resolved] >>) >>
  ELSE << resolved >>

\* The arguments of the handler when validators are declared: handler({ inputs })
\* in github-action.ts (line 387), handler(inputs) in part_002 (line 405).
handlerArguments(rev, resolved) ==
  IF rev = Rev010
  THEN << Obj(<< [key |-> << "i", "n", "p", "u", "t", "s" >>, value |-> resolved] >>) >>
  ELSE << resolved >>

\* What the statements of the try block did before they completed or threw:
\* the debug lines, the outcome of getInputs, the calls of the handler and of
\* the providers, and either the error thrown or the pending promise.
Threw(err, lines, resolved, calls) ==
  [threw |-> TRUE, err |-> err, lines |-> lines, inputs |-> resolved,
   handlerCalls |-> calls]
\* The call handler(...args): the handler throws, or returns its promise.
invoke(h, args, lines, resolved) ==
  IF h.behaviour = "throws" THEN Threw(h.err, lines, resolved, << args >>)
  ELSE [threw |-> FALSE, err |-> << >>, lines |-> lines, inputs |-> resolved,
        handlerCalls |-> << args >>]

\* A faulty resolution: a failure of getInputs is ignored and the handler is
\* invoked on an empty record.
resolveAndInvokeIgnoringFailure(rev, h, validators, environment, debug, lines) ==
  IF isNullish(validators)
  THEN invoke(h, << >>, Append(lines, "no inputs specified"), NotCalled)
  ELSE LET r == getInputs(rev, validators, environment)
       IN invoke(h, handlerArguments(rev, IF r.ok THEN r.value ELSE Obj(<< >>)),
                 lines, r)

\* Lines 377-388: without validators the handler is called with no arguments;
\* with validators the inputs are resolved first and given to the handler.
resolveAndInvoke(rev, h, validators, environment, debug, lines) ==
  IF isNullish(validators)
  THEN invoke(h, << >>, Append(lines, "no inputs specified"), NotCalled)
  ELSE LET r == getInputs(rev, validators, environment)
       IN IF ~r.ok THEN Threw(r.err, lines, r, << >>)
          ELSE invoke(h, handlerArguments(rev, r.value),
                      IF debug THEN Append(lines, "parsed out inputs") ELSE lines,
                      r)

\* Lines 371-388, the synchronous statements of the try block: the debug trace
\* of the environment and of `context`, then the resolution and the call.
tryBlock(rev, h, validators, environment, debug, bound) ==
  IF debug /\ ~bound
  THEN Threw(ContextReferenceError, << "received env" >>, NotCalled, << >>)
  ELSE resolveAndInvoke(rev, h, validators, environment, debug,
                        IF debug THEN << "received env", "received context" >>
                        ELSE << >>)

\* A faulty catch clause: the error is thrown again.
catchClauseRethrowing(err) == [failed |-> << >>, escaped |-> TRUE]

\* A faulty catch clause: the error is dropped.
catchClauseSwallowing(err) == [failed |-> << >>, escaped |-> FALSE]

\* Lines 400-402, the catch clause: core.setFailed(VError.fullStack(err)).
catchClause(err) == [failed |-> << fullStack(err) >>, escaped |-> FALSE]

\* A faulty loop: the entry on which core.setOutput throws counts as written.
RECURSIVE forwardFromWriting(_, _, _, _, _, _)
forwardFromWriting(entries, i, debug, fault, written, lines) ==
  IF i > Len(entries) THEN [ok |-> TRUE, err |-> << >>, written |-> written,
                            lines |-> lines]
  ELSE LET lines1 == IF debug THEN Append(lines, "setting output") ELSE lines
       IN IF fault = i
          THEN [ok |-> FALSE, err |-> SetOutputError,
                written |-> Append(written, entries[i]), lines |-> lines1]
          ELSE forwardFromWriting(entries, i + 1, debug, fault,
                                  Append(written, entries[i]), lines1)

\* The loop over Object.entries(outputs), lines 392-397, from entry i on:
\* written holds the completed core.setOutput calls; the call on entry number
\* `fault` throws.
RECURSIVE forwardFrom(_, _, _, _, _, _)
forwardFrom(entries, i, debug, fault, written, lines) ==
  IF i > Len(entries) THEN [ok |-> TRUE, err |-> << >>, written |-> written,
                            lines |-> lines]
  ELSE LET lines1 == IF debug THEN Append(lines, "setting output") ELSE lines
       IN IF fault = i
          THEN [ok |-> FALSE, err |-> SetOutputError, written |-> written,
                lines |-> lines1]
          ELSE forwardFrom(entries, i + 1, debug, fault,
                           Append(written, entries[i]), lines1)

\* A faulty callback: the outputs are forwarded last entry first.
Reverse(seq) == [i \in 1..Len(seq) |-> seq[Len(seq) + 1 - i]]
onFulfilledReversed(rev, outputs, debug, fault) ==
  IF isNullish(outputs)
  THEN [ok |-> TRUE, err |-> << >>, written |-> << >>, lines |-> << >>]
  ELSE forwardFrom(Reverse(outputs.entries), 1, debug, fault, << >>, << >>)

\* A faulty callback: an empty or absent mapping writes a placeholder output.
onFulfilledPlaceholder(rev, outputs, debug, fault) ==
  IF isNullish(outputs) \/ outputs.entries = << >>
  THEN [ok |-> TRUE, err |-> << >>,
        written |-> << [key |-> "outputs", value |-> "none"] >>, lines |-> << >>]
  ELSE forwardFrom(outputs.entries, 1, debug, fault, << >>, << >>)

\* The callback given to promise.then, lines 391-398: part_002 returns at once
\* on null and undefined (lines 410-412); github-action.ts hands them to
\* Object.entries, which throws.
onFulfilled(rev, outputs, debug, fault) ==
  IF isNullish(outputs)
  THEN IF rev = Rev011
       THEN [ok |-> TRUE, err |-> << >>, written |-> << >>, lines |-> << >>]
       ELSE [ok |-> FALSE, err |-> EntriesTypeError, written |-> << >>,
             lines |-> << >>]
  ELSE forwardFrom(outputs.entries, 1, debug, fault, << >>, << >>)

\* A faulty callback: the run is marked failed with the error and again with
\* its cause.
onRejectedPerCause(err) == [k \in 1..Len(err) |-> fullStack(SubSeq(err, k, Len(err)))]

\* The callback given to .catch, line 399: core.setFailed(VError.fullStack(err)).
onRejected(err) == << fullStack(err) >>

\* ----------------------------------------------------------- inputs of a run
\* The errors a handler fails with: an Error under at most MaxCauses VErrors.
RECURSIVE Wrapped(_)
Wrapped(n) ==
  IF n = 0 THEN NewError(<< "boom" >>)
  ELSE NewVError("VError", Wrapped(n - 1), << "wrapped" >>)
HandlerErrors == { Wrapped(n) : n \in 0..MaxCauses }

\* The keys of the outputs, and the value each is given.
OutputKeys == << "my-beautiful-output", "b", "a" >>
OutputValue(key) == IF key = "my-beautiful-output" THEN "word" ELSE "tata"

RECURSIVE OutputKeyLists(_)
OutputKeyLists(n) ==
  IF n = 0 THEN { << >> }
  ELSE { Append(ks, k) : ks \in OutputKeyLists(n - 1),
                         k \in { OutputKeys[i] : i \in 1..Len(OutputKeys) } }

\* The Outputs mappings of at most MaxOutputs entries, and no mapping at all.
OutputMappings ==
  UNION { { Obj([i \in 1..n |-> [key |-> ks[i], value |-> OutputValue(ks[i])]]) :
              ks \in { l \in OutputKeyLists(n) : Distinct(l) } } :
          n \in 0..MaxOutputs }
HandlerOutputs == { Undefined, Null } \cup OutputMappings

\* The handlers: one throws before it returns a promise, one returns a promise
\* that rejects, one returns a promise that fulfils.
Handlers ==
  { [behaviour |-> "throws", err |-> err, outputs |-> Undefined] :
      err \in HandlerErrors } \cup
  { [behaviour |-> "rejects", err |-> err, outputs |-> Undefined] :
      err \in HandlerErrors } \cup
  { [behaviour |-> "fulfils", err |-> << >>, outputs |-> o] :
      o \in HandlerOutputs }

\* The validators of a run: two required ones and one whose provider throws.
RunValidators ==
  { stringInput(Undefined),
    booleanInput(Undefined),
    stringInput(Options({ "default" }, Fn("thrower", TRUE, Undefined, ProviderError),
                        Undefined, Undefined, Undefined, Undefined)) }

\* No validators, or a mapping over the first field names, in their order.
RunValidatorMappings ==
  { Undefined } \cup
  UNION { { Obj([i \in 1..n |-> [key |-> FieldNames[i], validator |-> vs[i]]]) :
              vs \in [1..n -> RunValidators] } :
          n \in 0..(IF MaxValidators < Len(FieldNames) THEN MaxValidators
                    ELSE Len(FieldNames)) }

\* The environments of a run: INPUT_LEFT is empty or "left", INPUT_STEP is
\* empty, "false" or "left", the other inputs are not set.
RunEnvironments ==
  { environment \in Environments :
      /\ environment[envKey(FieldNames[1])] \in { EmptyString, Str(Chars("left")) }
      /\ environment[envKey(FieldNames[2])]
           \in { EmptyString, Str(Chars("false")), Str(Chars("left")) }
      /\ \A i \in 3..Len(FieldNames) : environment[envKey(FieldNames[i])] = Undefined }

\* ------------------------------------------------------------------- Spec
\* One run of runActionHandler(handler, inputValidators), in which the call
\* of core.setOutput that throws, if any, is one of faults.
InitWith(faults) ==
  /\ revision \in Revisions
  /\ env \in RunEnvironments
  /\ inputValidators \in RunValidatorMappings
  /\ handler \in Handlers
  /\ isDebug \in BOOLEAN
  /\ contextBound \in BOOLEAN
  /\ outputFault \in faults
  /\ providerCalls = << >>
  /\ validator = NotConstructed
  /\ parseInputs = << >>
  /\ parseResults = << >>
  /\ inputs = NotCalled
  /\ pc = "ready"
  /\ promise = NoPromise
  /\ reason = NoReason
  /\ handlerCalls = << >>
  /\ setOutputCalls = << >>
  /\ setFailedCalls = << >>
  /\ debugLines = << >>
  /\ escaped = FALSE
  /\ NoOutputs

\* core.setOutput and core.setFailed do not throw.
Init == InitWith({ 0 })

runConstants == << revision, env, inputValidators, handler, isDebug,
                   contextBound, outputFault, parseVars, outputsVars,
                  eventVars, clientVars, pageVars, robotVars >>

\* The call runActionHandler(handler, inputValidators), up to its return: the
\* try block and, when a statement of it throws, the catch clause.
RunActionHandler ==
  /\ pc = "ready"
  /\ LET t == tryBlock(revision, handler, inputValidators, env, isDebug, contextBound)
         c == catchClause(t.err)
     IN /\ debugLines' = t.lines
        /\ inputs' = t.inputs
        /\ providerCalls' = IF t.inputs = NotCalled THEN << >> ELSE t.inputs.calls
        /\ handlerCalls' = t.handlerCalls
        /\ IF t.threw
           THEN /\ setFailedCalls' = c.failed
                /\ escaped' = c.escaped
                /\ promise' = promise
                /\ pc' = "done"
           ELSE /\ promise' = [state |-> "pending"]
                /\ pc' = "pending"
                /\ UNCHANGED << setFailedCalls, escaped >>
  /\ UNCHANGED << runConstants, reason, setOutputCalls >>

\* The promise of the handler fulfils with the outputs.
Fulfil ==
  /\ pc = "pending"
  /\ handler.behaviour = "fulfils"
  /\ promise' = [state |-> "fulfilled", value |-> handler.outputs]
  /\ pc' = "fulfilled"
  /\ UNCHANGED << runConstants, inputs, providerCalls, reason, handlerCalls,
                  setOutputCalls, setFailedCalls, debugLines, escaped >>

\* The promise of the handler rejects; promise.then passes the rejection on.
Reject ==
  /\ pc = "pending"
  /\ handler.behaviour = "rejects"
  /\ promise' = [state |-> "rejected", reason |-> handler.err]
  /\ reason' = handler.err
  /\ pc' = "rejected"
  /\ UNCHANGED << runConstants, inputs, providerCalls, handlerCalls,
                  setOutputCalls, setFailedCalls, debugLines, escaped >>

\* The callback of promise.then runs on the outputs; what it throws rejects the
\* promise given to .catch.
ThenCallback ==
  /\ pc = "fulfilled"
  /\ LET r == onFulfilled(revision, promise.value, isDebug, outputFault)
     IN /\ setOutputCalls' = r.written
        /\ debugLines' = debugLines \o r.lines
        /\ reason' = r.err
        /\ pc' = IF r.ok THEN "done" ELSE "rejected"
  /\ UNCHANGED << runConstants, inputs, providerCalls, promise, handlerCalls,
                  setFailedCalls, escaped >>

\* The callback of .catch runs on the rejection.
CatchCallback ==
  /\ pc = "rejected"
  /\ setFailedCalls' = setFailedCalls \o onRejected(reason)
  /\ pc' = "done"
  /\ UNCHANGED << runConstants, inputs, providerCalls, promise, reason,
                  handlerCalls, setOutputCalls, debugLines, escaped >>

Next == RunActionHandler \/ Fulfil \/ Reject \/ ThenCallback \/ CatchCallback

Spec == Init /\ [][Next]_vars

\* ------------------------------------------- claims on runActionHandler
Started == pc # "ready" /\ pc # "none"
Finished == pc = "done"
InputsFailed == inputs # NotCalled /\ ~inputs.ok

\* C1: in every run mark-failed (core.setFailed) is called at most once and no
\* exception leaves runActionHandler for its caller.
C1_FailedAtMostOnceNothingEscapes ==
  /\ Len(setFailedCalls) <= 1
  /\ ~escaped

\* A run has ended marked failed once: its handler threw an error that has a
\* cause, and nothing left runActionHandler.
C1_Witness ==
  /\ Finished
  /\ handler.behaviour = "throws"
  /\ Len(handler.err) > 1
  /\ Len(handlerCalls) = 1
  /\ Len(setFailedCalls) = 1
  /\ ~escaped

\* C2: when validators are declared and getInputs fails, the handler is never
\* invoked, no output is written and mark-failed is called exactly once.
C2_InputsFailureSkipsHandler ==
  InputsFailed =>
    /\ ~isNullish(inputValidators)
    /\ handlerCalls = << >>
    /\ setOutputCalls = << >>
    /\ Len(setFailedCalls) = 1
    /\ Finished

\* getInputs has failed on its second validator, in a run whose handler would
\* have fulfilled with outputs.
C2_Witness ==
  /\ InputsFailed
  /\ Len(inputValidators.entries) = 2
  /\ inputs.err[1].message = << "error parsing input " >> \o FieldNames[2]
  /\ handler.behaviour = "fulfils"
  /\ ~isNullish(handler.outputs)
  /\ Finished

\* C3: when input resolution does not fail the handler is invoked exactly once
\* per run: with no arguments when no validators are declared, with the
\* resolved inputs record itself as its argument when validators are declared.
C3_HandlerInvokedOnceWithInputs ==
  (Started /\ ~InputsFailed) =>
    /\ Len(handlerCalls) = 1
    /\ isNullish(inputValidators) => handlerCalls[1] = << >>
    /\ ~isNullish(inputValidators) =>
         /\ inputs # NotCalled
         /\ handlerCalls[1] = << inputs.value >>

\* C4: when the promise of the handler fulfils with an outputs mapping,
\* core.setOutput is called exactly once per entry, in the order of the mapping
\* and with the key and value of the entry, only after the promise has settled,
\* and mark-failed is not called.
C4_OutputsForwardedInOrder ==
  /\ setOutputCalls # << >> => promise.state = "fulfilled"
  /\ (promise.state = "fulfilled" /\ ~isNullish(promise.value)) =>
       /\ setFailedCalls = << >>
       /\ Finished => setOutputCalls = promise.value.entries
       /\ ~Finished => setOutputCalls = << >>

\* A promise has fulfilled with two outputs and both have been written.
C4_Witness ==
  /\ Finished
  /\ promise.state = "fulfilled"
  /\ ~isNullish(promise.value)
  /\ Len(promise.value.entries) = 2
  /\ Len(setOutputCalls) = 2
  /\ setOutputCalls[1].key = "b"
  /\ setOutputCalls[2].key = "a"

\* The promise has fulfilled without outputs: with null, with undefined or with
\* an empty mapping.
FulfilledWithoutOutputs ==
  /\ promise.state = "fulfilled"
  /\ IF isNullish(promise.value) THEN TRUE ELSE promise.value.entries = << >>

\* C5: when the promise of the handler fulfils with absent outputs (null or
\* undefined) or with an empty mapping, no output is written and the run is
\* not marked failed.
C5_NoOutputsNoWriteNoFailure ==
  FulfilledWithoutOutputs =>
    /\ setOutputCalls = << >>
    /\ setFailedCalls = << >>

\* The text holds the name and the message of the link, as "name: message".
Mentions(text, link) ==
  \E i \in 1..Len(text) :
    /\ i + 1 + Len(link.message) <= Len(text)
    /\ text[i] = link.name
    /\ text[i + 1] = ": "
    /\ SubSeq(text, i + 2, i + 1 + Len(link.message)) = link.message

\* The text is a sequence of strings that mentions every link of the error and
\* introduces every cause by "caused by: ".
RendersWithCauses(text, err) ==
  /\ \A i \in 1..Len(text) : text[i] \in STRING
  /\ \A k \in 1..Len(err) : Mentions(text, err[k])
  /\ Cardinality({ i \in 1..Len(text) : text[i] = "\ncaused by: " }) = Len(err) - 1

\* C6: when the promise of the handler rejects, mark-failed is called exactly
\* once, with the rendered text of the error and of its chain of causes, and no
\* output is written in the run.
C6_RejectionMarksFailedOnce ==
  promise.state = "rejected" =>
    /\ setOutputCalls = << >>
    /\ ~Finished => setFailedCalls = << >>
    /\ Finished =>
         /\ Len(setFailedCalls) = 1
         /\ RendersWithCauses(setFailedCalls[1], promise.reason)

\* A promise has rejected with an error that has a cause, and the run has been
\* marked failed.
C6_Witness ==
  /\ Finished
  /\ promise.state = "rejected"
  /\ Len(promise.reason) = 2
  /\ Len(setFailedCalls) = 1

\* ------------------------------------------------------------ parseOutputs
\* Texts (file contents, keys, values, delimiters, paths) are sequences of
\* characters.
\* `.` of a regular expression without the s flag: any character but a line
\* terminator.
LineTerminators == { "\n", "\r" }
allDot(text) == \A i \in 1..Len(text) : text[i] \notin LineTerminators

\* The position of the first "\n" of text at or after position p; 0 if none.
newlineFrom(text, p) ==
  IF \E q \in p..Len(text) : text[q] = "\n"
  THEN CHOOSE q \in p..Len(text) :
         text[q] = "\n" /\ \A r \in p..(q - 1) : text[r] # "\n"
  ELSE 0

NoMatch == [matched |-> FALSE]

\* The match of outputRegex (line 313),
\*   /(?<key>.+?)<<(?<delimiter>.*?)\n(?<value>.*)\n\k<delimiter>\n/g,
\* that starts at position s with the key text[s..k]: the key is on one line
\* and "<<" follows it; the delimiter is the rest of that line, the value the
\* whole of the next line, and the line after it is the delimiter again.
matchWithKey(text, s, k) ==
  LET d == k + 3
      n1 == newlineFrom(text, d)
      n2 == newlineFrom(text, n1 + 1)
      delimiter == SubSeq(text, d, n1 - 1)
      value == SubSeq(text, n1 + 1, n2 - 1)
      e == n2 + Len(delimiter) + 1
  IN IF /\ k + 2 <= Len(text)
        /\ allDot(SubSeq(text, s, k))
        /\ text[k + 1] = "<" /\ text[k + 2] = "<"
        /\ n1 # 0
        /\ n2 # 0
        /\ allDot(delimiter)
        /\ allDot(value)
        /\ e <= Len(text)
        /\ SubSeq(text, n2 + 1, e - 1) = delimiter
        /\ text[e] = "\n"
     THEN [matched |-> TRUE, key |-> SubSeq(text, s, k), value |-> value,
           lastIndex |-> e]
     ELSE NoMatch

\* The match that starts at position s: `.+?` is lazy, the shortest key that
\* lets the rest of the pattern match is taken.
matchAt(text, s) ==
  LET ends == { k \in s..(Len(text) - 2) :
                  /\ text[k + 1] = "<" /\ text[k + 2] = "<"
                  /\ matchWithKey(text, s, k).matched }
  IN IF ends = {} THEN NoMatch
     ELSE matchWithKey(text, s, CHOOSE k \in ends : \A l \in ends : k <= l)

\* outputRegex.exec(fileContents) with the g flag: the leftmost match that
\* starts at or after lastIndex (the number of characters already consumed).
exec(text, lastIndex) ==
  LET marks == { k \in (lastIndex + 1)..(Len(text) - 2) :
                   text[k + 1] = "<" /\ text[k + 2] = "<" }
      starts == { s \in (lastIndex + 1)..Len(text) :
                    /\ \E k \in marks : k >= s
                    /\ matchAt(text, s).matched }
  IN IF starts = {} THEN NoMatch
     ELSE matchAt(text, CHOOSE s \in starts : \A t \in starts : s <= t)

\* result[key] = value on the properties of an object: a property that exists
\* is overwritten where it stands, a new one is added at the end.
setProperty(entries, key, value) ==
  IF \E i \in 1..Len(entries) : entries[i].key = key
  THEN [i \in 1..Len(entries) |->
          IF entries[i].key = key THEN [key |-> key, value |-> value]
          ELSE entries[i]]
  ELSE Append(entries, [key |-> key, value |-> value])

\* The while loop of parseOutputs, lines 315-319.
RECURSIVE execLoop(_, _, _)
execLoop(text, lastIndex, result) ==
  LET captures == exec(text, lastIndex)
  IN IF ~captures.matched THEN result
     ELSE execLoop(text, captures.lastIndex,
                   setProperty(result, captures.key, captures.value))

GithubOutputKey ==
  << "G", "I", "T", "H", "U", "B", "_", "O", "U", "T", "P", "U", "T" >>

\* `a || b`: b when a is falsy (undefined, null or the empty string here).
orElse(a, b) == IF isNullish(a) \/ a = EmptyString THEN b ELSE a

\* What readFile rejects with when no file is at the path.
NoSuchFile(path) ==
  << Link("Error", << "ENOENT: no such file or directory, open " >> \o path) >>

\* What a settled promise of parseOutputs holds, with the paths it read.
Rejected(err, paths) == [ok |-> FALSE, err |-> err, reads |-> paths]
Fulfilled(value, paths) == [ok |-> TRUE, value |-> value, reads |-> paths]

\* A faulty parseOutputs: the environment variable is preferred to the argument.
parseOutputsEnvFirst(filePath, environment, fs) ==
  LET outputsPath == orElse(lookup(environment, GithubOutputKey), filePath)
  IN IF isNullish(outputsPath)
     THEN Rejected(NewError(<< "no output file path provided" >>), << >>)
     ELSE IF outputsPath.s \notin DOMAIN fs
          THEN Rejected(NoSuchFile(outputsPath.s), << outputsPath.s >>)
          ELSE Fulfilled(Obj(execLoop(fs[outputsPath.s], 0, << >>)),
                         << outputsPath.s >>)

\* parseOutputs(filePath), lines 302-322: an async function, what it throws
\* rejects its promise.
parseOutputs(filePath, environment, fs) ==
  LET outputsPath == orElse(filePath, lookup(environment, GithubOutputKey))
  IN IF isNullish(outputsPath)
     THEN Rejected(NewError(<< "no output file path provided" >>), << >>)
     ELSE IF outputsPath.s \notin DOMAIN fs
          THEN Rejected(NoSuchFile(outputsPath.s), << outputsPath.s >>)
          ELSE Fulfilled(Obj(execLoop(fs[outputsPath.s], 0, << >>)),
                         << outputsPath.s >>)

\* The record core.setOutput(key, value) appends to the file of GITHUB_OUTPUT:
\* a heredoc under a delimiter that occurs neither in the key nor in the value.
record(key, delimiter, value) ==
  key \o << "<", "<" >> \o delimiter \o << "\n" >> \o value \o << "\n" >>
      \o delimiter \o << "\n" >>

\* Whether text holds part as a contiguous piece.
contains(text, part) ==
  \E i \in 1..(Len(text) - Len(part) + 1) :
    SubSeq(text, i, i + Len(part) - 1) = part

\* ------------------------------------------------------------- SpecOutputs
\* Largest number of records written to the outputs file.
MaxRecords == 3

\* The paths of the files.
Paths == { << "/", "a" >>, << "/", "b" >> }

\* The keys, values and delimiters of the records: a key that ends with "<",
\* an empty value, a value of two lines.
OutputNames == { << "k" >>, << "j", "<" >> }
OutputTexts == { << "v" >>, << >>, << "v", "\n", "w" >> }
Delimiters == { << "g", "h" >> }

\* process.env: GITHUB_OUTPUT is unset, empty, or the path of a file.
OutputEnvironments ==
  { << >> } \cup
  { [key \in { GithubOutputKey } |-> path] :
      path \in { EmptyString } \cup { Str(q) : q \in Paths } }

\* The file systems at the start: each path holds an empty file or none.
FileSystems == UNION { [present -> { << >> }] : present \in SUBSET Paths }

\* The arguments of parseOutputs: none, the empty path, a path.
PathArguments == { Undefined, EmptyString } \cup { Str(q) : q \in Paths }

\* parseOutputs is the same function in the two revisions.
InitOutputs ==
  /\ revision = Rev010
  /\ env \in OutputEnvironments
  /\ files \in FileSystems
  /\ reads = << >>
  /\ parsed = NotParsed
  /\ inputValidators = Undefined
  /\ providerCalls = << >>
  /\ validator = NotConstructed
  /\ parseInputs = << >>
  /\ parseResults = << >>
  /\ inputs = NotCalled
  /\ NoRun
  /\ NoEvents
  /\ NoClient

\* core.setOutput(key, value) with GITHUB_OUTPUT naming an existing file: the
\* record is appended to the file.
SetOutput ==
  /\ parsed = NotParsed
  /\ Len(setOutputCalls) < MaxRecords
  /\ LET path == lookup(env, GithubOutputKey)
     IN /\ ~isNullish(path)
        /\ path.s \in DOMAIN files
        /\ \E key \in OutputNames, value \in OutputTexts, delimiter \in Delimiters :
             /\ ~contains(key, delimiter)
             /\ ~contains(value, delimiter)
             /\ files' = [files EXCEPT
                            ![path.s] = @ \o record(key, delimiter, value)]
             /\ setOutputCalls' =
                  Append(setOutputCalls, [key |-> key, value |-> value])
  /\ UNCHANGED << revision, env, inputValidators, providerCalls, parseVars,
                  inputs, handler, isDebug, contextBound, outputFault, pc,
                  promise, reason, handlerCalls, setFailedCalls, debugLines,
                  escaped, reads, parsed,
                  eventVars, clientVars, pageVars, robotVars >>

\* parseOutputs(filePath), up to the settling of its promise.
ParseOutputs ==
  /\ parsed = NotParsed
  /\ \E filePath \in PathArguments :
       LET r == parseOutputs(filePath, env, files)
       IN /\ parsed' = [called |-> TRUE, filePath |-> filePath, result |-> r]
          /\ reads' = reads \o r.reads
  /\ UNCHANGED << revision, env, inputValidators, providerCalls, parseVars,
                  inputs, runVars, files,
                  eventVars, clientVars, pageVars, robotVars >>

NextOutputs == SetOutput \/ ParseOutputs

SpecOutputs == InitOutputs /\ [][NextOutputs]_vars

\* ---------------------------------------------------- claims on parseOutputs
\* The records written to the log, in order, and the path of the log.
Log == setOutputCalls
LogPath == lookup(env, GithubOutputKey)
\* parseOutputs was called and read the file the records were written to.
ParsedTheLog ==
  /\ parsed.called
  /\ ~isNullish(LogPath)
  /\ LogPath.s \in DOMAIN files
  /\ reads = << LogPath.s >>
\* Whether record i is the last one of the log that carries its key.
IsLast(i) == \A j \in (i + 1)..Len(Log) : Log[j].key # Log[i].key
IsMultiLine(text) == \E i \in 1..Len(text) : text[i] = "\n"

\* C17: over a log made of well-formed records, parseOutputs returns a mapping
\* whose keys are exactly the keys of the records and whose value for a key is
\* the value of the last record carrying that key.
C17_LastRecordOfEachKeyWins ==
  ParsedTheLog =>
    /\ parsed.result.ok
    /\ { parsed.result.value.entries[n].key :
           n \in 1..Len(parsed.result.value.entries) }
         = { Log[i].key : i \in 1..Len(Log) }
    /\ \A i \in 1..Len(Log) :
         IsLast(i) =>
           \A n \in 1..Len(parsed.result.value.entries) :
             parsed.result.value.entries[n].key = Log[i].key
               => parsed.result.value.entries[n].value = Log[i].value

\* C18: a record whose value spans several lines, the delimiter not among
\* them, is parsed back to exactly that value under its key.
C18_MultiLineValueParsedBack ==
  ParsedTheLog =>
    \A i \in 1..Len(Log) :
      (IsLast(i) /\ IsMultiLine(Log[i].value)) =>
        /\ parsed.result.ok
        /\ \E n \in 1..Len(parsed.result.value.entries) :
             parsed.result.value.entries[n] = Log[i]

\* C19: parseOutputs yields the empty mapping, without failing, when the file
\* at the resolved path is empty and when no file is at that path.
C19_EmptyOrAbsentLogIsEmptyMapping ==
  (/\ parsed.called
   /\ Len(reads) = 1
   /\ (reads[1] \notin DOMAIN files \/ files[reads[1]] = << >>)) =>
    /\ parsed.result.ok
    /\ parsed.result.value = Obj(<< >>)

\* C20: without a path argument and without GITHUB_OUTPUT in the environment
\* the promise of parseOutputs rejects and no file is read; when a path is
\* given as argument, that file is the one read.
C20_NoPathRejectsArgumentWins ==
  parsed.called =>
    /\ (parsed.filePath = Undefined /\ GithubOutputKey \notin DOMAIN env) =>
         /\ ~parsed.result.ok
         /\ reads = << >>
    /\ (parsed.filePath.t = "string" /\ parsed.filePath.s # << >>) =>
         reads = << parsed.filePath.s >>

\* parseOutputs() was called with GITHUB_OUTPUT unset: its promise is rejected
\* and nothing was read.
C20_Witness ==
  /\ parsed.called
  /\ parsed.filePath = Undefined
  /\ GithubOutputKey \notin DOMAIN env
  /\ ~parsed.result.ok
  /\ reads = << >>

\* ------------------------------------------------------------- parseEvent
\* enum Event: its members are numbered in the order they are declared.
Push == 0
PullRequest == 1

\* Largest number of events in a list of supported events.
MaxSupported == 2

\* parseEvent(eventName): the switch compares with strict equality.
parseEvent(name) ==
  IF name = "push" THEN Return(Push, << >>)
  ELSE IF name = "pull_request" THEN Return(PullRequest, << >>)
  ELSE Throw(NewError(<< "unsupported event: ", name >>), << >>)

\* A faulty check: the parsed event is returned whatever the action supports.
checkSupportedEventUnchecked(name, supportedEvents) == parseEvent(name)

\* checkSupportedEvent(eventName, supported): an error of parseEvent leaves
\* the function as it is.
checkSupportedEvent(name, supportedEvents) ==
  LET event == parseEvent(name)
  IN IF ~event.ok THEN event
     ELSE IF includes(supportedEvents, event.value)
     THEN Return(event.value, << >>)
     ELSE Throw(NewError(<< "unsupported event: ", name >>), << >>)

\* The lists of at most n events, repetitions included.
RECURSIVE EventLists(_)
EventLists(n) ==
  IF n = 0 THEN { << >> }
  ELSE EventLists(n - 1) \cup
       { Append(l, e) : l \in { k \in EventLists(n - 1) : Len(k) = n - 1 },
                        e \in { Push, PullRequest } }

\* The event names of the unit tests and near misses of the two names.
EventNames ==
  { "push", "pull_request", "rebuild_errthang", "toto", "", "Push",
    "pull_request_target" }

\* ------------------------------------------------------------ SpecEvents
\* One event name and one list of supported events, given to parseEvent and
\* to checkSupportedEvent.
InitEvents ==
  /\ revision \in Revisions
  /\ eventName \in EventNames
  /\ supported \in EventLists(MaxSupported)
  /\ parsedEvent = NotCalled
  /\ checkedEvent = NotCalled
  /\ env = << >>
  /\ inputValidators = Undefined
  /\ providerCalls = << >>
  /\ validator = NotConstructed
  /\ parseInputs = << >>
  /\ parseResults = << >>
  /\ inputs = NotCalled
  /\ NoRun
  /\ files = << >>
  /\ reads = << >>
  /\ parsed = NotParsed
  /\ NoClient

eventConstants == << revision, env, inputValidators, providerCalls, parseVars,
                     inputs, runVars, outputsVars, clientVars, pageVars,
                     robotVars, eventName,
                     supported >>

\* parseEvent(eventName).
ParseEvent ==
  /\ parsedEvent = NotCalled
  /\ parsedEvent' = parseEvent(eventName)
  /\ UNCHANGED << eventConstants, checkedEvent >>

\* checkSupportedEvent(eventName, supported).
CheckSupportedEvent ==
  /\ checkedEvent = NotCalled
  /\ checkedEvent' = checkSupportedEvent(eventName, supported)
  /\ UNCHANGED << eventConstants, parsedEvent >>

NextEvents == ParseEvent \/ CheckSupportedEvent

SpecEvents == InitEvents /\ [][NextEvents]_vars

\* The name GitHub gives an event.
NameOf(e) == IF e = Push THEN "push" ELSE "pull_request"

\* C21: parseEvent returns Push exactly for "push" and PullRequest exactly for
\* "pull_request", and fails for every other name; checkSupportedEvent returns
\* the event of that name exactly when the name is one of the two and its
\* event is in the supported list, and fails otherwise.
C21_EventParsedAndChecked ==
  /\ parsedEvent # NotCalled =>
       /\ \A e \in { Push, PullRequest } :
            (parsedEvent.ok /\ parsedEvent.value = e) <=> eventName = NameOf(e)
       /\ ~parsedEvent.ok <=> eventName \notin { "push", "pull_request" }
  /\ checkedEvent # NotCalled =>
       /\ checkedEvent.ok <=>
            \E i \in 1..Len(supported) : eventName = NameOf(supported[i])
       /\ checkedEvent.ok => eventName = NameOf(checkedEvent.value)
       /\ supported = << >> => ~checkedEvent.ok

C21_Witness ==
  /\ parsedEvent # NotCalled /\ parsedEvent.ok
  /\ checkedEvent # NotCalled /\ checkedEvent.ok
  /\ checkedEvent.value = PullRequest
  /\ supported = << Push, PullRequest >>

\* ------------------------------------------------------------ GitHubClient
\* const ERROR_NAME.
ERROR_NAME == "GitHubClientError"

\* this.octokit.request(route, args): the remote answers with response, which
\* either carries data or is the error the promise is rejected with.
request(route, args, response) ==
  IF response.ok
  THEN Return(response.data, << [route |-> route, args |-> args] >>)
  ELSE Throw(response.err, << [route |-> route, args |-> args] >>)

\* The catch clause every method has: the error is wrapped in a VError named
\* ERROR_NAME.
wrap(r, message) ==
  IF r.ok THEN r ELSE Throw(NewVError(ERROR_NAME, r.err, message), r.calls)

getUser(params, response) ==
  wrap(request("GET /users/{username}", [username |-> params.user], response),
       << "error getting user ", params.user >>)

isOrganization(params, response) ==
  LET info == getUser([user |-> params.owner], response)
  IN wrap(IF info.ok THEN Return(info.value.type = "Organization", info.calls)
          ELSE info,
          << "error checking if ", params.owner, " is an organization" >>)

isUser(params, response) ==
  LET info == getUser([user |-> params.owner], response)
  IN wrap(IF info.ok THEN Return(info.value.type = "User", info.calls)
          ELSE info,
          << "error checking if ", params.owner, " is an organization" >>)

getRepository(params, response) ==
  wrap(request("GET /repos/{owner}/{repo}",
               [owner |-> params.owner, repo |-> params.repository], response),
       << "error getting reposoitory ", params.owner, "/", params.repository >>)

listPrs(params, response) ==
  wrap(request("GET /repos/{owner}/{repo}/pulls",
               [owner |-> params.owner, repo |-> params.repository], response),
       << "error listing PRs for ", params.owner, "/", params.repository >>)

\* prs.filter(pr => pr.labels.find(prLabel => prLabel.name === label) != null)
listPrsWithLabel(params, response) ==
  LET prs == listPrs([owner |-> params.owner, repository |-> params.repository],
                     response)
      hasLabel(pr) == \E i \in 1..Len(pr.labels) : pr.labels[i].name = params.label
  IN wrap(IF prs.ok THEN Return(SelectSeq(prs.value, hasLabel), prs.calls)
          ELSE prs,
          << "error listing PRs for ", params.owner, "/", params.repository,
             " with label ", params.label >>)

findBranchPrs(params, response) ==
  wrap(request("GET /repos/{owner}/{repo}/pulls",
               [repo |-> params.repository, owner |-> params.owner,
                head |-> << params.owner, ":", params.branchName >>], response),
       << "error while getting PRs for branch: ", params.owner, "/",
          params.repository, "/", params.branchName >>)

findCommitPrs(params, response) ==
  wrap(request("GET /repos/{owner}/{repo}/commits/{commit_sha}/pulls",
               [repo |-> params.repository, owner |-> params.owner,
                commit_sha |-> params.commitSha1], response),
       << "error while getting PRs for commit: ", params.commitSha1 >>)

\* The promise resolves with undefined: the response is dropped.
postIssueComment(params, response) ==
  LET r == request("POST /repos/{owner}/{repo}/issues/{issue_number}/comments",
                   [owner |-> params.owner, repo |-> params.repository,
                    issue_number |-> params.issueNumber, body |-> params.body],
                   response)
  IN wrap(IF r.ok THEN Return(Undefined, r.calls) ELSE r,
          << "error while posting issue ", ToString(params.issueNumber), " comment" >>)

listIssueComments(params, response) ==
  wrap(request("GET /repos/{owner}/{repo}/issues/{issue_number}/comments",
               [owner |-> params.owner, repo |-> params.repository,
                issue_number |-> params.issueNumber], response),
       << "error while listing issue ", ToString(params.issueNumber),
          " comments for ",
          params.owner, "/", params.repository >>)

\* The promise resolves with undefined: the response is dropped.
deleteIssueComment(params, response) ==
  LET r == request("DELETE /repos/{owner}/{repo}/issues/comments/{comment_id}",
                   [owner |-> params.owner, repo |-> params.repository,
                    comment_id |-> params.commentId], response)
  IN wrap(IF r.ok THEN Return(Undefined, r.calls) ELSE r,
          << "error while deleting comment ", ToString(params.commentId) >>)

\* The method of the client that a method name denotes.
GitHubClient(method, params, response) ==
  CASE method = "getUser" -> getUser(params, response)
    [] method = "isOrganization" -> isOrganization(params, response)
    [] method = "isUser" -> isUser(params, response)
    [] method = "getRepository" -> getRepository(params, response)
    [] method = "listPrs" -> listPrs(params, response)
    [] method = "listPrsWithLabel" -> listPrsWithLabel(params, response)
    [] method = "findBranchPrs" -> findBranchPrs(params, response)
    [] method = "findCommitPrs" -> findCommitPrs(params, response)
    [] method = "postIssueComment" -> postIssueComment(params, response)
    [] method = "listIssueComments" -> listIssueComments(params, response)
    [] method = "deleteIssueComment" -> deleteIssueComment(params, response)

\* ---------------------------------------------------- GitHubRepositoryClient
\* A faulty addRepoInfo: the spread comes last, so that an owner or a
\* repository among the parameters replaces the bound one.
addRepoInfoSpreadLast(bound, params) ==
  params @@ [owner |-> bound.owner, repository |-> bound.repository]

\* addRepoInfo(params) is { ...params, owner: this.owner, repository:
\* this.repository }: the bound owner and repository come last and win.
addRepoInfo(bound, params) ==
  [owner |-> bound.owner, repository |-> bound.repository] @@ params

\* The parameters a method of the scoped client hands to addRepoInfo: get and
\* listPrs take none and hand over {}.
handedOver(method, params) ==
  IF method \in { "get", "listPrs" } THEN << >> ELSE params

\* The method of the client that a method of the scoped client calls.
clientMethod(method) == IF method = "get" THEN "getRepository" ELSE method

\* A method of the scoped client: one call of the client, whose promise is
\* returned as it is. underlying lists the calls made on the client.
GitHubRepositoryClient(bound, method, params, response) ==
  LET given == addRepoInfo(bound, handedOver(method, params))
      result == GitHubClient(clientMethod(method), given, response)
  IN [underlying |-> << [method |-> clientMethod(method), params |-> given,
                         result |-> result] >>,
      result |-> result]

\* -------------------------------------------------------- inputs of a call
\* The error octokit rejects a request with.
HttpError == << Link("HttpError", << "Not Found" >>) >>

Owners == { "infra-blocks", "octocat" }
Repositories == { "ts-github" }
InRepository == { [owner |-> o, repository |-> r] : o \in Owners, r \in Repositories }

ClientMethods ==
  { "getUser", "isOrganization", "isUser", "getRepository", "listPrs",
    "listPrsWithLabel", "findBranchPrs", "findCommitPrs", "postIssueComment",
    "listIssueComments", "deleteIssueComment" }
ScopedMethods ==
  { "get", "listPrs", "listPrsWithLabel", "findBranchPrs", "findCommitPrs",
    "postIssueComment", "listIssueComments", "deleteIssueComment" }

\* The parameters a method of the client is called with.
ParamsOf(method) ==
  CASE method = "getUser" -> { [user |-> o] : o \in Owners }
    [] method \in { "isOrganization", "isUser" } -> { [owner |-> o] : o \in Owners }
    [] method \in { "getRepository", "listPrs" } -> InRepository
    [] method = "listPrsWithLabel" ->
         { p @@ [label |-> "npm-publish"] : p \in InRepository }
    [] method = "findBranchPrs" ->
         { p @@ [branchName |-> "feature"] : p \in InRepository }
    [] method = "findCommitPrs" ->
         { p @@ [commitSha1 |-> "c0ffee"] : p \in InRepository }
    [] method = "postIssueComment" ->
         { p @@ [issueNumber |-> 7, body |-> "hello"] : p \in InRepository }
    [] method = "listIssueComments" ->
         { p @@ [issueNumber |-> 7] : p \in InRepository }
    [] method = "deleteIssueComment" ->
         { p @@ [commentId |-> 42] : p \in InRepository }

\* The parameters a method of the scoped client is called with: those of the
\* client's method without owner and repository, and the same with an owner
\* of the caller's among them.
ScopedParamsOf(method) ==
  IF method \in { "get", "listPrs" } THEN { << >> }
  ELSE LET own == { [k \in DOMAIN p \ { "owner", "repository" } |-> p[k]] :
                      p \in ParamsOf(method) }
       IN own \cup { p @@ [owner |-> "elsewhere"] : p \in own }

PullRequests ==
  { << >>,
    << [number |-> 1, labels |-> << [name |-> "npm-publish"] >>] >>,
    << [number |-> 1, labels |-> << >>],
       [number |-> 2, labels |-> << [name |-> "bug"], [name |-> "npm-publish"] >>] >> }

\* What the remote answers a request of a method with, when it does not fail.
DataOf(method) ==
  CASE method \in { "getUser", "isOrganization", "isUser" } ->
         { [type |-> "Organization"], [type |-> "User"] }
    [] method = "getRepository" -> { [full_name |-> "infra-blocks/ts-github"] }
    [] method \in { "listPrs", "listPrsWithLabel", "findBranchPrs",
                    "findCommitPrs" } -> PullRequests
    [] method = "listIssueComments" ->
         { << >>, << [id |-> 42, body |-> "hello"] >> }
    [] method = "postIssueComment" -> { [id |-> 43, body |-> "hello"] }
    [] method = "deleteIssueComment" -> { Undefined }

Responses(method) ==
  { [ok |-> TRUE, data |-> d] : d \in DataOf(method) } \cup
  { [ok |-> FALSE, err |-> HttpError] }

\* ------------------------------------------------------------- SpecClient
\* A client and a scoped client made of it with inRepositoryScope; methods of
\* either are called one after the other.
InitClient ==
  /\ revision = Rev011
  /\ scope \in InRepository
  /\ call = NotCalled
  /\ requests = << >>
  /\ repositories = << >>
  /\ sequences = 0
  /\ gen = NoGenerator
  /\ consumer = NoConsumer
  /\ NoRobot
  /\ env = << >>
  /\ inputValidators = Undefined
  /\ providerCalls = << >>
  /\ validator = NotConstructed
  /\ parseInputs = << >>
  /\ parseResults = << >>
  /\ inputs = NotCalled
  /\ NoRun
  /\ files = << >>
  /\ reads = << >>
  /\ parsed = NotParsed
  /\ NoEvents

clientConstants == << revision, env, inputValidators, providerCalls, parseVars,
                      inputs, runVars, outputsVars, eventVars, pageVars,
                      robotVars >>

\* client.method(params), up to the settling of its promise.
ClientCall ==
  /\ \E method \in ClientMethods :
       \E params \in ParamsOf(method), response \in Responses(method) :
         LET r == GitHubClient(method, params, response)
         IN /\ call' = [called |-> TRUE, scoped |-> FALSE, method |-> method,
                        params |-> params, response |-> response,
                        underlying |-> << >>, result |-> r]
            /\ requests' = r.calls
  /\ UNCHANGED << clientConstants, scope >>

\* scoped.method(params), up to the settling of its promise.
ScopedCall ==
  /\ \E method \in ScopedMethods :
       \E params \in ScopedParamsOf(method),
          response \in Responses(clientMethod(method)) :
         LET r == GitHubRepositoryClient(scope, method, params, response)
         IN /\ call' = [called |-> TRUE, scoped |-> TRUE, method |-> method,
                        params |-> params, response |-> response,
                        underlying |-> r.underlying, result |-> r.result]
            /\ requests' = r.result.calls
  /\ UNCHANGED << clientConstants, scope >>

NextClient == ClientCall \/ ScopedCall

SpecClient == InitClient /\ [][NextClient]_vars

\* The parameters of the caller's own: all but owner and repository, and none
\* for the methods that take none.
OwnKeys == IF call.method \in { "get", "listPrs" } THEN { }
           ELSE DOMAIN call.params \ { "owner", "repository" }

\* C22: a method of the scoped client calls the method of the same name of the
\* client (getRepository for get) exactly once, with the caller's parameters
\* and the owner and repository bound at construction, and returns what that
\* call returned.
C22_ScopedClientForwardsOnce ==
  (call # NotCalled /\ call.scoped) =>
    /\ Len(call.underlying) = 1
    /\ LET made == call.underlying[1]
       IN /\ made.method = (IF call.method = "get" THEN "getRepository"
                            ELSE call.method)
          /\ DOMAIN made.params = OwnKeys \cup { "owner", "repository" }
          /\ made.params.owner = scope.owner
          /\ made.params.repository = scope.repository
          /\ \A k \in OwnKeys : made.params[k] = call.params[k]
          /\ call.result = made.result

C22_Witness ==
  /\ call # NotCalled /\ call.scoped
  /\ call.method = "listPrsWithLabel"
  /\ "owner" \in DOMAIN call.params
  /\ call.params.owner # scope.owner
  /\ call.result.ok
  /\ Len(call.result.value) = 1

\* The method of the client that the latest call ran, and its parameters.
Operation == IF call.scoped THEN call.underlying[1].method ELSE call.method
Arguments == IF call.scoped THEN call.underlying[1].params ELSE call.params

\* What an operation is aimed at: the user, the repository, the branch, the
\* commit, the issue or the comment.
TargetOf(method, params) ==
  CASE method = "getUser" -> params.user
    [] method \in { "isOrganization", "isUser" } -> params.owner
    [] method \in { "getRepository", "listPrs", "listPrsWithLabel" } ->
         params.repository
    [] method = "findBranchPrs" -> params.branchName
    [] method = "findCommitPrs" -> params.commitSha1
    [] method \in { "postIssueComment", "listIssueComments" } ->
         ToString(params.issueNumber)
    [] method = "deleteIssueComment" -> ToString(params.commentId)

\* The message an operation fails with when its request fails.
FailureMessage(method, params) ==
  GitHubClient(method, params, [ok |-> FALSE, err |-> HttpError]).err[1].message

\* A message names an operation when no other operation fails with it.
NamesOperation(message, method) ==
  \A other \in ClientMethods \ { method } :
    \A params \in ParamsOf(other) : FailureMessage(other, params) # message

\* C23: a call of a method of the client issues exactly one request, whether
\* the request succeeds or fails; when it fails the call fails with a
\* GitHubClientError that has the error of the request in its chain of causes
\* and whose message names the operation called and its target.
C23_OneRequestAndNamedFailure ==
  call # NotCalled =>
    /\ Len(requests) = 1
    /\ call.result.ok <=> call.response.ok
    /\ ~call.response.ok =>
         LET err == call.result.err
         IN /\ err[1].name = ERROR_NAME
            /\ \E k \in 2..Len(err) : SubSeq(err, k, Len(err)) = call.response.err
            /\ includes(err[1].message, TargetOf(Operation, Arguments))
            /\ NamesOperation(err[1].message, Operation)

\* The same, for every operation but isUser and isOrganization.
C23_OtherOperations ==
  (call # NotCalled /\ Operation \notin { "isUser", "isOrganization" }) =>
    C23_OneRequestAndNamedFailure

\* ------------------------------------------------- paginateList...Repositories
\* const DEFAULT_REPOS_PER_PAGE.
DEFAULT_REPOS_PER_PAGE == 30

\* Most repositories the remote holds, most pulls one consumer makes by hand,
\* most listings begun.
MaxRepos == 2
MaxPulls == 4
MaxSequences == 2

\* A property of the options object, undefined when there is no such object
\* or no such property.
optional(options, key) ==
  IF options # Undefined /\ key \in DOMAIN options THEN options[key] ELSE Undefined

\* `perPage = DEFAULT_REPOS_PER_PAGE` in the destructuring of `options || {}`.
perPageOf(options) ==
  IF options # Undefined /\ "perPage" \in DOMAIN options THEN options.perPage
  ELSE DEFAULT_REPOS_PER_PAGE

\* The request of the page the generator stands at: GET /orgs/{org}/repos for
\* an organization, GET /users/{username}/repos for a user.
pageRequest(g) ==
  IF g.kind = "organization"
  THEN [route |-> "GET /orgs/{org}/repos",
        args |-> [org |-> g.name, type |-> optional(g.options, "type"),
                  sort |-> optional(g.options, "sort"),
                  direction |-> optional(g.options, "direction"),
                  per_page |-> g.perPage, page |-> g.page]]
  ELSE [route |-> "GET /users/{username}/repos",
        args |-> [username |-> g.name, type |-> optional(g.options, "type"),
                  sort |-> optional(g.options, "sort"),
                  direction |-> optional(g.options, "direction"),
                  per_page |-> g.perPage, page |-> g.page]]

\* A faulty generator function: the first page is requested when the
\* generator is made, before anything is asked of it.
paginateListRepositoriesEager(kind, name, options) ==
  LET g == [state |-> "awaiting", kind |-> kind, name |-> name,
            options |-> options, perPage |-> perPageOf(options), page |-> 1]
  IN [gen |-> g, requests |-> << pageRequest(g) >>]

\* The call of paginateListOrganizationRepositories (kind "organization") or
\* of paginateListUserRepositories (kind "user"): it makes the generator and
\* runs no statement of its body.
paginateListRepositories(kind, name, options) ==
  [gen |-> [state |-> "suspendedStart", kind |-> kind, name |-> name,
            options |-> options, perPage |-> 0, page |-> 0],
   requests |-> << >>]

\* A faulty resumption: the page number is not advanced after a yield.
nextSamePage(g) ==
  CASE g.state = "suspendedStart" ->
         LET g1 == [g EXCEPT !.state = "awaiting",
                             !.perPage = perPageOf(g.options), !.page = 1]
         IN [gen |-> g1, requests |-> << pageRequest(g1) >>]
    [] g.state = "suspendedYield" ->
         LET g1 == [g EXCEPT !.state = "awaiting"]
         IN [gen |-> g1, requests |-> << pageRequest(g1) >>]
    [] g.state = "completed" -> [gen |-> g, requests |-> << >>]

\* generator.next(), up to the next await: from the start the body runs to the
\* request of page 1; after a yield, page++ and the loop condition, which
\* holds since only a non-empty page is yielded, lead to the request of the
\* next page; a completed generator requests nothing.
next(g) ==
  CASE g.state = "suspendedStart" ->
         LET g1 == [g EXCEPT !.state = "awaiting",
                             !.perPage = perPageOf(g.options), !.page = 1]
         IN [gen |-> g1, requests |-> << pageRequest(g1) >>]
    [] g.state = "suspendedYield" ->
         LET g1 == [g EXCEPT !.state = "awaiting", !.page = @ + 1]
         IN [gen |-> g1, requests |-> << pageRequest(g1) >>]
    [] g.state = "completed" -> [gen |-> g, requests |-> << >>]

\* The message of the catch clause of the generator.
paginateMessage(g) ==
  IF g.kind = "organization"
  THEN << "error paginating organization repositories for organization: ", g.name >>
  ELSE << "error paginating user repositories for user: ", g.name >>

\* The generator after the awaited request settled: a failure is wrapped and
\* thrown, a non-empty page is yielded, an empty page ends the loop and the
\* generator.
settled(g, response) ==
  IF ~response.ok
  THEN [gen |-> [g EXCEPT !.state = "completed"], kind |-> "throw",
        err |-> NewVError(ERROR_NAME, response.err, paginateMessage(g)),
        value |-> << >>]
  ELSE IF Len(response.data) > 0
  THEN [gen |-> [g EXCEPT !.state = "suspendedYield"], kind |-> "yield",
        err |-> << >>, value |-> response.data]
  ELSE [gen |-> [g EXCEPT !.state = "completed", !.page = @ + 1],
        kind |-> "done", err |-> << >>, value |-> << >>]

\* The message of the catch clause of listOrganizationRepositories and of
\* listUserRepositories.
listMessage(g) ==
  IF g.kind = "organization"
  THEN << "error listing repositories for organization ", g.name >>
  ELSE << "error listing repositories for user ", g.name >>

\* A faulty listing: when the generator throws, the pages got so far are
\* returned.
forAwaitPartial(g, repos, s) ==
  CASE s.kind = "yield" -> [settled |-> FALSE, repos |-> repos \o s.value]
    [] s.kind = "done" -> [settled |-> TRUE, repos |-> repos,
                           result |-> Return(repos, << >>)]
    [] s.kind = "throw" -> [settled |-> TRUE, repos |-> repos,
                            result |-> Return(repos, << >>)]

\* One turn of the for await loop of listOrganizationRepositories and of
\* listUserRepositories, on what the generator answered: a page is pushed on
\* repos and the loop goes on, the end returns repos, an error is wrapped.
forAwait(g, repos, s) ==
  CASE s.kind = "yield" -> [settled |-> FALSE, repos |-> repos \o s.value]
    [] s.kind = "done" -> [settled |-> TRUE, repos |-> repos,
                           result |-> Return(repos, << >>)]
    [] s.kind = "throw" ->
         [settled |-> TRUE, repos |-> repos,
          result |-> Throw(NewVError(ERROR_NAME, s.err, listMessage(g)), << >>)]

\* ------------------------------------------------------------ the remote
\* What the remote answers the request of a page with: the repositories of
\* that page, none past the last.
pageOf(all, perPage, page) ==
  LET first == (page - 1) * perPage + 1
      last == IF page * perPage < Len(all) THEN page * perPage ELSE Len(all)
  IN IF first > last THEN << >> ELSE SubSeq(all, first, last)

\* The options of a listing: none, some without perPage, some with.
ListOptions ==
  { Undefined, [sort |-> "created"], [perPage |-> 1],
    [perPage |-> 2, type |-> "all"] }

\* --------------------------------------------------------------- SpecPages
InitPages ==
  /\ revision = Rev011
  /\ repositories \in { [i \in 1..n |-> i] : n \in 0..MaxRepos }
  /\ sequences = 0
  /\ gen = NoGenerator
  /\ consumer = NoConsumer
  /\ NoRobot
  /\ requests = << >>
  /\ scope = << >>
  /\ call = NotCalled
  /\ env = << >>
  /\ inputValidators = Undefined
  /\ providerCalls = << >>
  /\ validator = NotConstructed
  /\ parseInputs = << >>
  /\ parseResults = << >>
  /\ inputs = NotCalled
  /\ NoRun
  /\ files = << >>
  /\ reads = << >>
  /\ parsed = NotParsed
  /\ NoEvents

pageConstants == << revision, env, inputValidators, providerCalls, parseVars,
                    inputs, runVars, outputsVars, eventVars, robotVars,
                    scope, call, repositories >>

\* The consumer of a generator just made: mode "manual" pulls by hand, mode
\* "list" is the for await loop of a listing. since is the number of requests
\* made before this listing.
NewConsumer(mode) ==
  [mode |-> mode, pulls |-> 0, since |-> Len(requests), yielded |-> << >>,
   failed |-> FALSE, stopped |-> FALSE, ended |-> FALSE, repos |-> << >>,
   result |-> NotCalled]

Idle == gen.state # "awaiting"

\* client.paginateListOrganizationRepositories(params, options) or
\* client.paginateListUserRepositories(params, options).
Paginate ==
  /\ Idle
  /\ sequences < MaxSequences
  /\ \E kind \in { "organization", "user" }, options \in ListOptions :
       LET made == paginateListRepositories(kind, "infra-blocks", options)
       IN /\ gen' = made.gen
          /\ requests' = requests \o made.requests
  /\ consumer' = NewConsumer("manual")
  /\ sequences' = sequences + 1
  /\ UNCHANGED pageConstants

\* generator.next() by the consumer, up to the next await of the generator.
Pull ==
  /\ consumer.mode = "manual"
  /\ gen.state \in { "suspendedStart", "suspendedYield", "completed" }
  /\ consumer.pulls < MaxPulls
  /\ LET n == next(gen)
     IN /\ gen' = n.gen
        /\ requests' = requests \o n.requests
  /\ consumer' = [consumer EXCEPT !.pulls = @ + 1]
  /\ UNCHANGED << pageConstants, sequences >>

\* generator.return() by the consumer, as at a break out of a for await loop.
Stop ==
  /\ consumer.mode = "manual"
  /\ gen.state \in { "suspendedStart", "suspendedYield" }
  /\ gen' = [gen EXCEPT !.state = "completed"]
  /\ consumer' = [consumer EXCEPT !.stopped = TRUE]
  /\ UNCHANGED << pageConstants, sequences, requests >>

\* client.listOrganizationRepositories(params, options) or
\* client.listUserRepositories(params, options), up to its first await: the
\* generator is made and for await asks it for its first value.
List ==
  /\ Idle
  /\ sequences < MaxSequences
  /\ \E kind \in { "organization", "user" }, options \in ListOptions :
       LET made == paginateListRepositories(kind, "infra-blocks", options)
           n == next(made.gen)
       IN /\ gen' = n.gen
          /\ requests' = requests \o made.requests \o n.requests
  /\ consumer' = [NewConsumer("list") EXCEPT !.pulls = 1]
  /\ sequences' = sequences + 1
  /\ UNCHANGED pageConstants

\* The request the generator awaits settles: the remote answers with the page
\* asked for, or the request fails. The generator runs on to its yield, its
\* end or its throw; a for await loop then runs on to its next pull or to the
\* settling of the listing.
Respond ==
  /\ gen.state = "awaiting"
  /\ \E fails \in BOOLEAN :
       LET response ==
             IF fails THEN [ok |-> FALSE, err |-> HttpError]
             ELSE [ok |-> TRUE, data |-> pageOf(repositories, gen.perPage, gen.page)]
           s == settled(gen, response)
           got == [consumer EXCEPT
                     !.yielded = IF s.kind = "yield" THEN Append(@, s.value) ELSE @,
                     !.failed = fails,
                     !.ended = s.kind = "done"]
       IN IF consumer.mode = "list"
          THEN LET f == forAwait(s.gen, consumer.repos, s)
                   n == next(s.gen)
               IN IF f.settled
                  THEN /\ gen' = s.gen
                       /\ requests' = requests
                       /\ consumer' = [got EXCEPT !.repos = f.repos,
                                                  !.result = f.result]
                  ELSE /\ gen' = n.gen
                       /\ requests' = requests \o n.requests
                       /\ consumer' = [got EXCEPT !.repos = f.repos,
                                                  !.pulls = @ + 1]
          ELSE /\ gen' = s.gen
               /\ requests' = requests
               /\ consumer' = got
  /\ UNCHANGED << pageConstants, sequences >>

NextPages == Paginate \/ Pull \/ Stop \/ List \/ Respond

SpecPages == InitPages /\ [][NextPages]_vars

\* The requests of the listing under way, and the page size it is to use.
Listing == gen.state # "none"
SequenceRequests == SubSeq(requests, consumer.since + 1, Len(requests))
PageSize ==
  IF gen.options # Undefined /\ "perPage" \in DOMAIN gen.options
  THEN gen.options.perPage ELSE 30

\* The n-th page the remote holds at that page size.
PageHeld(n) == pageOf(repositories, PageSize, n)

RECURSIVE Concat(_)
Concat(pages) == IF pages = << >> THEN << >> ELSE Head(pages) \o Concat(Tail(pages))

\* C24: the requests of a listing ask for pages 1, 2, 3, ... in this order,
\* all at the page size given (30 when none is); the pages yielded are the
\* non-empty pages held, in order; the first empty page is not yielded, ends
\* the sequence, and no page is requested after it.
C24_PagesInOrderUntilFirstEmpty ==
  Listing =>
    /\ \A i \in 1..Len(SequenceRequests) :
         /\ SequenceRequests[i].args.page = i
         /\ SequenceRequests[i].args.per_page = PageSize
    /\ \A i \in 1..Len(consumer.yielded) :
         /\ consumer.yielded[i] = PageHeld(i)
         /\ PageHeld(i) # << >>
    /\ Len(SequenceRequests) \in { Len(consumer.yielded), Len(consumer.yielded) + 1 }
    /\ consumer.ended =>
         /\ gen.state = "completed"
         /\ Len(SequenceRequests) = Len(consumer.yielded) + 1
         /\ PageHeld(Len(SequenceRequests)) = << >>
    /\ (gen.state = "suspendedYield" /\ ~consumer.failed) =>
         Len(SequenceRequests) = Len(consumer.yielded)

\* A second listing ended after two pages of one repository each, and the
\* consumer asked once more after the end.
C24_Witness ==
  /\ sequences = 2
  /\ consumer.since > 0
  /\ consumer.mode = "manual"
  /\ consumer.ended
  /\ Len(consumer.yielded) = 2
  /\ consumer.pulls = 4
  /\ PageSize = 1

\* C25: a listing that settles returns the concatenation of the pages in the
\* order they were requested, after exactly one request more than there are
\* non-empty pages; when a request fails it fails with a GitHubClientError
\* and returns no list.
C25_ListIsConcatenationOrFailure ==
  (Listing /\ consumer.mode = "list" /\ consumer.result # NotCalled) =>
    /\ consumer.result.ok <=> ~consumer.failed
    /\ consumer.result.ok =>
         /\ consumer.result.value = Concat(consumer.yielded)
         /\ consumer.result.value = repositories
         /\ Len(SequenceRequests) = Len(consumer.yielded) + 1
    /\ ~consumer.result.ok =>
         /\ consumer.result.err[1].name = ERROR_NAME
         /\ consumer.result.err[Len(consumer.result.err)] = HttpError[1]
         /\ "value" \notin DOMAIN consumer.result

C25_Witness ==
  /\ Listing /\ consumer.mode = "list" /\ consumer.result # NotCalled
  /\ consumer.result.ok
  /\ Len(consumer.yielded) = 2
  /\ Len(SequenceRequests) = 3
  /\ consumer.result.value = << 1, 2 >>

\* A listing failed on its second request, after a first page.
C25_WitnessFailure ==
  /\ Listing /\ consumer.mode = "list" /\ consumer.result # NotCalled
  /\ ~consumer.result.ok
  /\ Len(consumer.yielded) = 1

\* C29: a page is requested only when the consumer asks for a value: every
\* step that issues a request issues one and is a pull by the consumer, the
\* requests of a listing never outnumber its pulls, and a generator that is
\* completed, by its end, its failure or the consumer's return, requests
\* nothing more.
C29_RequestsFollowPulls ==
  [][/\ Len(requests') > Len(requests) =>
          /\ Len(requests') = Len(requests) + 1
          /\ consumer'.pulls =
               (IF sequences' = sequences THEN consumer.pulls ELSE 0) + 1
     /\ Listing' =>
          Len(requests') - consumer'.since <= consumer'.pulls
     /\ (Listing /\ gen.state = "completed" /\ sequences' = sequences) =>
          requests' = requests]_vars

\* The consumer returned after the first page and asked again: one request.
C29_Witness ==
  /\ Listing
  /\ consumer.stopped
  /\ consumer.pulls = 3
  /\ Len(SequenceRequests) = 1
  /\ Len(consumer.yielded) = 1

\* ------------------------------------------------------------- MisterRobot
\* MisterRobot.COMMENT_SUFFIX, " - Yours truly, Mr. Robot", character by
\* character.
COMMENT_SUFFIX ==
  << " ", "-", " ", "Y", "o", "u", "r", "s", " ", "t", "r", "u", "l", "y", ",",
     " ", "M", "r", ".", " ", "R", "o", "b", "o", "t" >>

\* String.prototype.endsWith.
endsWith(s, suffix) ==
  /\ Len(s) >= Len(suffix)
  /\ SubSeq(s, Len(s) - Len(suffix) + 1, Len(s)) = suffix

\* A faulty filter: every comment that has a body is to be removed.
commentsToRemoveAny(listed) ==
  SelectSeq(listed, LAMBDA comment : ~isNullish(comment.body))

\* comments.filter(comment => comment.body != null &&
\* comment.body.endsWith(MisterRobot.COMMENT_SUFFIX)).
commentsToRemove(listed) ==
  SelectSeq(listed, LAMBDA comment :
                      /\ ~isNullish(comment.body)
                      /\ endsWith(comment.body.s, COMMENT_SUFFIX))

\* The request providePrComment awaits next: the removal of the first comment
\* left to remove, or the post of `${body}${MisterRobot.COMMENT_SUFFIX}` when
\* none is left.
afterRemovals(toRemove) == IF toRemove = << >> THEN "posting" ELSE "deleting"

\* ------------------------------------------------------------ the remote
\* What the remote does with a request and what it answers: a listing is
\* answered with all the comments of the pull request, a removal takes the
\* comment away and fails when there is no such comment, a post adds a
\* comment under a new id.
Has(held, id) == \E i \in 1..Len(held) : held[i].id = id
remote(held, id, operation, argument, fails) ==
  IF fails THEN [held |-> held, id |-> id,
                 response |-> [ok |-> FALSE, err |-> HttpError]]
  ELSE CASE operation = "list" ->
              [held |-> held, id |-> id, response |-> [ok |-> TRUE, data |-> held]]
         [] operation = "delete" ->
              IF Has(held, argument)
              THEN [held |-> SelectSeq(held, LAMBDA c : c.id # argument),
                    id |-> id, response |-> [ok |-> TRUE, data |-> Undefined]]
              ELSE [held |-> held, id |-> id,
                    response |-> [ok |-> FALSE, err |-> HttpError]]
         [] operation = "post" ->
              [held |-> Append(held, [id |-> id, body |-> Str(argument)]),
               id |-> id + 1,
               response |-> [ok |-> TRUE,
                             data |-> [id |-> id, body |-> Str(argument)]]]

\* Most comments the pull request holds at first.
MaxComments == 2

\* this.pullRequest, the pull request Mister Robot comments on.
pullRequest == [number |-> 7]

\* The bodies of the comments held at first: none, a plain one, one of Mister
\* Robot, one with the suffix in its middle and one with all of the suffix
\* but its first character at its end.
HeldBodies ==
  { Null, Str(<< "h", "i" >>), Str(<< "o", "l", "d" >> \o COMMENT_SUFFIX),
    Str(COMMENT_SUFFIX \o << "!" >>), Str(Tail(COMMENT_SUFFIX)) }

\* The calls of providePrComment and the body each is given.
Calls == { "first", "second" }
BodyOf(c) == IF c = "first" THEN << "o", "n", "e" >> ELSE << "t", "w", "o" >>

NotStarted == [pc |-> "none"]

\* --------------------------------------------------------------- SpecRobot
\* One Mister Robot on one pull request, through a scoped client; two calls
\* of providePrComment, which may overlap.
InitRobot ==
  /\ revision = Rev011
  /\ scope \in { [owner |-> "infra-blocks", repository |-> "ts-github"] }
  /\ \E n \in 0..MaxComments :
       /\ comments \in { [i \in 1..n |-> [id |-> i, body |-> bodies[i]]] :
                           bodies \in [1..n -> HeldBodies] }
       /\ nextId = n + 1
  /\ robots = [c \in Calls |-> NotStarted]
  /\ requests = << >>
  /\ call = NotCalled
  /\ repositories = << >>
  /\ sequences = 0
  /\ gen = NoGenerator
  /\ consumer = NoConsumer
  /\ env = << >>
  /\ inputValidators = Undefined
  /\ providerCalls = << >>
  /\ validator = NotConstructed
  /\ parseInputs = << >>
  /\ parseResults = << >>
  /\ inputs = NotCalled
  /\ NoRun
  /\ files = << >>
  /\ reads = << >>
  /\ parsed = NotParsed
  /\ NoEvents

robotConstants == << revision, env, inputValidators, providerCalls, parseVars,
                     inputs, runVars, outputsVars, eventVars, pageVars, scope,
                     call >>

Active(c) == robots[c].pc \in { "listing", "deleting", "posting" }

\* The calls after a step of call c: every other call under way has had
\* other activity on the pull request.
Disturbing(c, mine) ==
  [d \in Calls |-> IF d = c THEN mine
                   ELSE IF Active(d) THEN [robots[d] EXCEPT !.alone = FALSE]
                   ELSE robots[d]]

\* misterRobot.providePrComment({ body }), up to its first await: the request
\* that lists the comments is on its way.
ProvidePrComment(c) ==
  /\ robots[c] = NotStarted
  /\ robots' = Disturbing(c, [pc |-> "listing", body |-> BodyOf(c),
                              toRemove |-> << >>, before |-> comments,
                              alone |-> TRUE, failedAt |-> "none",
                              err |-> << >>])
  /\ UNCHANGED << robotConstants, comments, nextId, requests >>

\* The remote answers the listing: the call filters the comments and goes on
\* to its first removal or to its post, or fails.
Listed(c) ==
  /\ robots[c].pc = "listing"
  /\ \E fails \in BOOLEAN :
       LET r == remote(comments, nextId, "list", pullRequest.number, fails)
           listed == GitHubRepositoryClient(scope, "listIssueComments",
                                            [issueNumber |-> pullRequest.number],
                                            r.response).result
           toRemove == commentsToRemove(listed.value)
       IN /\ comments' = r.held
          /\ nextId' = r.id
          /\ requests' = requests \o listed.calls
          /\ robots' = Disturbing(c,
               IF listed.ok
               THEN [robots[c] EXCEPT !.pc = afterRemovals(toRemove),
                                      !.toRemove = toRemove]
               ELSE [robots[c] EXCEPT !.pc = "failed", !.failedAt = "list",
                                      !.err = listed.err])
  /\ UNCHANGED robotConstants

\* The remote answers the removal of the first comment left to remove: the
\* call goes on to the next removal or to its post, or fails.
Deleted(c) ==
  /\ robots[c].pc = "deleting"
  /\ \E fails \in BOOLEAN :
       LET comment == Head(robots[c].toRemove)
           r == remote(comments, nextId, "delete", comment.id, fails)
           deleted == GitHubRepositoryClient(scope, "deleteIssueComment",
                                             [commentId |-> comment.id],
                                             r.response).result
       IN /\ comments' = r.held
          /\ nextId' = r.id
          /\ requests' = requests \o deleted.calls
          /\ robots' = Disturbing(c,
               IF deleted.ok
               THEN [robots[c] EXCEPT !.pc = afterRemovals(Tail(robots[c].toRemove)),
                                      !.toRemove = Tail(@)]
               ELSE [robots[c] EXCEPT !.pc = "failed", !.failedAt = "delete",
                                      !.err = deleted.err])
  /\ UNCHANGED robotConstants

\* The remote answers the post: the call is over.
Posted(c) ==
  /\ robots[c].pc = "posting"
  /\ \E fails \in BOOLEAN :
       LET body == robots[c].body \o COMMENT_SUFFIX
           r == remote(comments, nextId, "post", body, fails)
           posted == GitHubRepositoryClient(scope, "postIssueComment",
                                            [issueNumber |-> pullRequest.number,
                                             body |-> body],
                                            r.response).result
       IN /\ comments' = r.held
          /\ nextId' = r.id
          /\ requests' = requests \o posted.calls
          /\ robots' = Disturbing(c,
               IF posted.ok THEN [robots[c] EXCEPT !.pc = "done"]
               ELSE [robots[c] EXCEPT !.pc = "failed", !.failedAt = "post",
                                      !.err = posted.err])
  /\ UNCHANGED robotConstants

NextRobot ==
  \E c \in Calls : ProvidePrComment(c) \/ Listed(c) \/ Deleted(c) \/ Posted(c)

SpecRobot == InitRobot /\ [][NextRobot]_vars

\* A comment of Mister Robot: its body is some text followed by the suffix.
IsRobots(comment) ==
  /\ comment.body # Null
  /\ \E k \in 0..Len(comment.body.s) :
       SubSeq(comment.body.s, 1, k) \o COMMENT_SUFFIX = comment.body.s
RobotsIn(held) == { i \in 1..Len(held) : IsRobots(held[i]) }
Holds(held, comment) == \E i \in 1..Len(held) : held[i] = comment
Completes(c) == robots[c].pc # "done" /\ robots'[c].pc = "done"

\* C26: when a call of providePrComment completes with no other activity on
\* the pull request since it began, no comment of Mister Robot was left when
\* the new one was posted, the pull request then holds exactly one comment
\* that ends with the suffix, whose body is the body given followed by the
\* suffix, and every other comment held when the call began is still there;
\* no step ever removes a comment that does not end with the suffix; a call
\* that failed at its listing or at a removal has posted nothing.
C26_OneRobotCommentAfterCall ==
  [][\A c \in Calls :
       /\ (Completes(c) /\ robots'[c].alone) =>
            /\ RobotsIn(comments) = { }
            /\ Cardinality(RobotsIn(comments')) = 1
            /\ \A i \in RobotsIn(comments') :
                 comments'[i].body = Str(BodyOf(c) \o COMMENT_SUFFIX)
            /\ \A i \in 1..Len(robots'[c].before) :
                 ~IsRobots(robots'[c].before[i]) =>
                   Holds(comments', robots'[c].before[i])
       /\ \A i \in 1..Len(comments) :
            ~IsRobots(comments[i]) => Holds(comments', comments[i])
       /\ (robots'[c].pc = "failed" /\ robots'[c].failedAt \in { "list", "delete" }) =>
            \A i \in 1..Len(comments') :
              comments'[i].body # Str(BodyOf(c) \o COMMENT_SUFFIX)]_vars

\* The first call completed alone on a pull request that held a comment of
\* Mister Robot and a comment with the suffix in its middle.
C26_Witness ==
  /\ robots["first"].pc = "done"
  /\ robots["first"].alone
  /\ robots["second"] = NotStarted
  /\ Cardinality(RobotsIn(robots["first"].before)) = 1
  /\ Len(robots["first"].before) = 2
  /\ Len(comments) = 2

\* A call failed at its second removal.
C26_WitnessFailure ==
  /\ robots["first"].pc = "failed"
  /\ robots["first"].failedAt = "delete"
  /\ robots["first"].alone
  /\ Len(robots["first"].toRemove) = 1
  /\ comments = << >>

\* C27: once two calls of providePrComment on the same pull request have both
\* completed, however their steps interleaved, the pull request holds
\* exactly one comment that ends with the suffix.
C27_OneRobotCommentAfterTwoCalls ==
  (\A c \in Calls : robots[c].pc = "done") =>
    Cardinality(RobotsIn(comments)) = 1

\* The same, for two calls of which the second began after the first ended.
C27_OneAfterTheOther ==
  (\A c \in Calls : robots[c].pc = "done" /\ robots[c].alone) =>
    Cardinality(RobotsIn(comments)) = 1

\* ---------------------------------------------------------------- SpecFault
\* One run of runActionHandler in which one call of core.setOutput throws:
\* the first, the second, ... or one the run never gets to.
InitFault == InitWith(1..MaxOutputs)

SpecFault == InitFault /\ [][Next]_vars

\* The handler fulfilled with outputs of at least outputFault entries, and
\* the callback of promise.then ran on them.
FaultHit ==
  /\ pc \in { "rejected", "done" }
  /\ promise # NoPromise
  /\ promise.state = "fulfilled"
  /\ ~isNullish(promise.value)
  /\ outputFault \in 1..Len(promise.value.entries)

\* C30: when core.setOutput throws on the k-th entry of the outputs of a
\* fulfilled handler, the k - 1 entries before it are written, in their
\* order, no entry after them is, and the run, once over, has called
\* core.setFailed exactly once.
C30_FaultKeepsEarlierOutputsFailsOnce ==
  FaultHit =>
    /\ setOutputCalls = SubSeq(promise.value.entries, 1, outputFault - 1)
    /\ Finished => Len(setFailedCalls) = 1
    /\ ~Finished => setFailedCalls = << >>
    /\ ~escaped

\* The second of two entries failed: one output is written, one failure marked.
C30_Witness ==
  /\ FaultHit
  /\ Finished
  /\ outputFault = 2
  /\ Len(promise.value.entries) = 2
  /\ Len(setOutputCalls) = 1
  /\ Len(setFailedCalls) = 1

\* What a run calls when core.isDebug() answers debug and everything else is
\* as in this run: the handler, core.setOutput and core.setFailed.
RunWith(debug) ==
  LET t == tryBlock(revision, handler, inputValidators, env, debug, contextBound)
      f == onFulfilled(revision, handler.outputs, debug, outputFault)
  IN IF t.threw
     THEN [handler |-> t.handlerCalls, outputs |-> << >>,
           failed |-> catchClause(t.err).failed]
     ELSE IF handler.behaviour = "rejects"
     THEN [handler |-> t.handlerCalls, outputs |-> << >>,
           failed |-> onRejected(handler.err)]
     ELSE [handler |-> t.handlerCalls, outputs |-> f.written,
           failed |-> IF f.ok THEN << >> ELSE onRejected(f.err)]

\* C28: a run that is over has called the handler, core.setOutput and
\* core.setFailed exactly as the same run with the other answer of
\* core.isDebug() does: the same calls, with the same arguments, in the same
\* order.
C28_DebugChangesOnlyDebugLines ==
  Finished =>
    [handler |-> handlerCalls, outputs |-> setOutputCalls,
     failed |-> setFailedCalls] = RunWith(~isDebug)

\* The same, where the global scope binds the identifier `context`.
C28_WhereContextIsBound ==
  (Finished /\ contextBound) =>
    [handler |-> handlerCalls, outputs |-> setOutputCalls,
     failed |-> setFailedCalls] = RunWith(~isDebug)

====
